---- MODULE Spec2Model ----
(***************************************************************************)
(* Normalisation, calibration, fusion and cross-template comparison of     *)
(* extracted relations (package xiyou).                                    *)
(*                                                                         *)
(* Text is modelled as sequences of one-character strings, so that         *)
(* strip(), startswith(), substring containment, regex substitution and    *)
(* "|".join() are computed and not assumed.  A missing value (Python None, *)
(* or an absent dict key read through .get) is the value None.             *)
(* A float is an integer number of hundredths (90 is 0.9); a quotient is   *)
(* kept as the pair <<numerator, denominator>>.                            *)
(***************************************************************************)
EXTENDS Integers, Sequences, FiniteSets, TLC

VARIABLES
    pc,          \* which call has been made so far
    synonyms,    \* synonyms_map / syn: insertion-ordered list of <<key, value>>
    alias,       \* parsed alias rule set [strip_tokens, regex_rules]
    name,        \* canonicalisation: the name passed in
    once,        \* canonicalisation: the value returned for name
    twice,       \* canonicalisation: the value returned for once
    a,           \* _jaccard: first key set
    b,           \* _jaccard: second key set
    jab,         \* _jaccard(a, b)
    jba,         \* _jaccard(b, a)
    data,        \* _parse_relations: the payload
    cmin,        \* _parse_relations: confidence_min
    parsed,      \* _parse_relations(data, ...): [items, keys, by_type]
    reparsed,    \* _parse_relations of the payload with its list reordered
    relations,   \* calibrate_relations, fuse_relations: the relations passed in
    settings,    \* calibrate_relations, fuse_relations: the settings passed in
    out,         \* calibrate_relations, fuse_relations, normalize_relations:
                 \* the list returned
    alias_rules,     \* normalize_output: the raw alias rules
    alias_relations, \* normalize_output: the alias labels
    kg,          \* normalize_output: the value returned
    query,       \* compare_chapter: the query
    files,       \* compare_chapter: the result files, by path
    report       \* compare_chapter: the value returned

canonVars == <<name, once, twice>>
jaccardVars == <<a, b, jab, jba>>
parseVars == <<data, cmin, parsed, reparsed>>
cfgVars == <<synonyms, alias>>
relVars == <<relations, settings, out>>
normVars == <<alias_rules, alias_relations, kg>>
compareVars == <<query, files, report>>

vars == <<pc, cfgVars, canonVars, jaccardVars, parseVars, relVars, normVars, compareVars>>

(***************************************************************************)
(* Bounds of the model.                                                    *)
(***************************************************************************)
MaxNameLen == 3      \* longest name drawn as an input
MaxSyn == 1          \* most entries of a synonym table
MaxStripTokens == 1  \* most strip tokens of an alias rule set
MaxRegexRules == 1   \* most regex rules of an alias rule set
MaxKeys == 3         \* most keys in the universe _jaccard's arguments are drawn from
MaxRels == 3         \* most relation entries of a payload handed to _parse_relations
MaxFuse == 3         \* most relations handed to fuse_relations
MaxCalib == 2        \* most relations handed to calibrate_relations
MaxPatterns == 2     \* most calibration patterns of the settings
MaxNormRels == 2     \* most raw relations of a payload given to normalisation
MaxTemplates == 3    \* most template ids of a comparison query
MaxFiles == 2        \* most result files in a results directory
MaxChapters == 2     \* longest list of chapter ids of a batch
MaxBooks == 2        \* longest list of books of a batch

\* conf = r.get("confidence", None): the value standing for None
NoConf == -1

None == <<"None">>

Chars == {"a", "b", " "}

SeqsUpTo(S, n) == UNION {[1..k -> S] : k \in 0..n}

Names == SeqsUpTo(Chars, MaxNameLen)

(***************************************************************************)
(* Python string primitives.                                               *)
(***************************************************************************)
RECURSIVE LStrip(_)
LStrip(s) == IF s # <<>> /\ Head(s) = " " THEN LStrip(Tail(s)) ELSE s

RECURSIVE RStrip(_)
RStrip(s) ==
    IF s # <<>> /\ s[Len(s)] = " " THEN RStrip(SubSeq(s, 1, Len(s) - 1)) ELSE s

\* str.strip()
Strip(s) == RStrip(LStrip(s))

\* str.startswith(t)
StartsWith(s, t) == Len(t) <= Len(s) /\ SubSeq(s, 1, Len(t)) = t

\* str.endswith(t)
EndsWith(s, t) == Len(t) <= Len(s) /\ SubSeq(s, Len(s) - Len(t) + 1, Len(s)) = t

\* t in s
Contains(s, t) == \E i \in 0..(Len(s) - Len(t)) : SubSeq(s, i + 1, i + Len(t)) = t

\* str(x or ""): None and "" both give ""
StrOrEmpty(x) == IF x = None THEN <<>> ELSE x

\* pat.sub(rep, n) for a pattern that is a literal: every non-overlapping
\* occurrence, leftmost first, is replaced; the empty pattern matches before
\* every character and at the end
RECURSIVE ReSub(_, _, _)
ReSub(pat, rep, n) ==
    IF n = <<>> THEN (IF pat = <<>> THEN rep ELSE <<>>)
    ELSE IF pat = <<>> THEN rep \o <<Head(n)>> \o ReSub(pat, rep, Tail(n))
    ELSE IF StartsWith(n, pat)
         THEN rep \o ReSub(pat, rep, SubSeq(n, Len(pat) + 1, Len(n)))
         ELSE <<Head(n)>> \o ReSub(pat, rep, Tail(n))

(***************************************************************************)
(* Synonym table: a dict in insertion order.                               *)
(***************************************************************************)
SynKeys(syn) == {syn[i][1] : i \in DOMAIN syn}

\* k in syn
SynHas(syn, k) == k \in SynKeys(syn)

\* syn.get(k): the value of the entry with key k, None if there is none
SynGet(syn, k) ==
    IF SynHas(syn, k)
    THEN syn[CHOOSE i \in DOMAIN syn : syn[i][1] = k][2]
    ELSE None

\* syn.get(k, d)
SynGetOr(syn, k, d) == IF SynHas(syn, k) THEN SynGet(syn, k) ELSE d

(***************************************************************************)
(* Canonicalisation.                                                       *)
(***************************************************************************)
\* for pat, rep in alias.get("regex_rules", []): n = pat.sub(rep, n)
RECURSIVE ApplyRegexRules(_, _)
ApplyRegexRules(n, rules) ==
    IF rules = <<>> THEN n
    ELSE ApplyRegexRules(ReSub(Head(rules).pat, Head(rules).rep, n), Tail(rules))

\* one pass of the strip-token loop body: once from the front, then once
\* from the back of what is left
StripToken(n, tok) ==
    LET front == IF StartsWith(n, tok) THEN SubSeq(n, Len(tok) + 1, Len(n)) ELSE n
    IN  IF EndsWith(front, tok)
        THEN SubSeq(front, 1, Len(front) - Len(tok))
        ELSE front

RECURSIVE ApplyStripTokens(_, _)
ApplyStripTokens(n, toks) ==
    IF toks = <<>> THEN n
    ELSE ApplyStripTokens(StripToken(n, Head(toks)), Tail(toks))

canonical_original(nm, al) ==
    Strip(ApplyRegexRules(Strip(StrOrEmpty(nm)), al.regex_rules))

\* canonical_norm without its closing strip()
canonical_norm_nostrip(nm, syn, al) ==
    LET n1 == ApplyRegexRules(Strip(StrOrEmpty(nm)), al.regex_rules)
        n2 == SynGetOr(syn, n1, n1)
    IN  ApplyStripTokens(n2, al.strip_tokens)

canonical_norm(nm, syn, al) ==
    LET n1 == ApplyRegexRules(Strip(StrOrEmpty(nm)), al.regex_rules)
        n2 == SynGetOr(syn, n1, n1)
        n3 == ApplyStripTokens(n2, al.strip_tokens)
    IN  Strip(n3)

\* compare_service._canonical
_canonical(nm, syn, al) ==
    LET n1 == ApplyRegexRules(Strip(nm), al.regex_rules)
        n2 == SynGetOr(syn, n1, n1)
        n3 == ApplyStripTokens(n2, al.strip_tokens)
    IN  Strip(n3)

(***************************************************************************)
(* Lists of strings.                                                       *)
(***************************************************************************)
\* sep.join(parts)
RECURSIVE Join(_, _)
Join(sep, parts) ==
    IF parts = <<>> THEN <<>>
    ELSE IF Len(parts) = 1 THEN parts[1]
    ELSE parts[1] \o sep \o Join(sep, Tail(parts))

\* the characters of the model in code-point order, the order sorted() uses
CharOrder == <<" ", ",", ":", "E", "F", "P", "R", "S", "T", "a", "b", "c", "x", "y", "z", "|">>

CharCode(c) == CHOOSE i \in DOMAIN CharOrder : CharOrder[i] = c

\* s < t for strings
RECURSIVE LexLess(_, _)
LexLess(s, t) ==
    IF t = <<>> THEN FALSE
    ELSE IF s = <<>> THEN TRUE
    ELSE IF Head(s) = Head(t) THEN LexLess(Tail(s), Tail(t))
    ELSE CharCode(Head(s)) < CharCode(Head(t))

\* sorted(S) for a set S of strings
RECURSIVE Sorted(_)
Sorted(S) ==
    IF S = {} THEN <<>>
    ELSE LET m == CHOOSE x \in S : \A y \in S \ {x} : LexLess(x, y)
         IN  <<m>> \o Sorted(S \ {m})

\* r.get(field, ""), then str(): an absent field reads as ""
GetStr(v) == IF v = None THEN <<>> ELSE v

\* d[k] = d.get(k, 0) + 1 on a dict of counts
CountUp(d, k) ==
    [x \in (DOMAIN d) \cup {k} |->
        IF x = k THEN (IF k \in DOMAIN d THEN d[k] ELSE 0) + 1 ELSE d[x]]

\* d.get(k, 0)
CountOf(d, k) == IF k \in DOMAIN d THEN d[k] ELSE 0

NoCounts == [x \in {} |-> 0]

RECURSIVE SumSeq(_)
SumSeq(s) == IF s = <<>> THEN 0 ELSE Head(s) + SumSeq(Tail(s))

(***************************************************************************)
(* Parsed JSON payloads.  A list payload is [kind, items]; a dict payload  *)
(* is [kind, keys, relations, ...], keys being the keys it holds and the   *)
(* other fields their values; the value None is [kind |-> "none"].         *)
(***************************************************************************)
NoData == [kind |-> "none"]

JList(items) == [kind |-> "list", items |-> items]

\* a dict payload with every key normalisation and comparison read
RawDict(keys, rels, rwm, evs, epr, ents, meta) ==
    [kind |-> "dict", keys |-> keys, relations |-> rels, relation_with_meta |-> rwm,
     events |-> evs, event_plus_relation |-> epr, entities |-> ents, meta |-> meta]

\* a dict payload as a result file holds it
JDict(keys, rels, evs) == RawDict(keys, rels, <<>>, evs, <<>>, <<>>, NoData)

\* a dict payload in which the keys in nulls hold null
JDictNull(keys, nulls, rels, evs) ==
    [kind |-> "dict", keys |-> keys, nulls |-> nulls, relations |-> rels,
     relation_with_meta |-> <<>>, events |-> evs, event_plus_relation |-> <<>>,
     entities |-> <<>>, meta |-> NoData]

\* d[k] is None
IsNull(d, k) == "nulls" \in DOMAIN d /\ k \in d.nulls

\* an entry of a list that is not a mapping: a number
NotMapping == [kind |-> "number"]

\* r.get exists
IsMapping(r) == r # NotMapping

\* participants of a raw event: a mapping role -> names, a list of
\* {role, entity} pairs, or absent
PartsMap(f) == [form |-> "map", map |-> f, pairs |-> <<>>]
PartsList(pairs) == [form |-> "list", map |-> <<>>, pairs |-> pairs]
PartsAbsent == [form |-> "none", map |-> <<>>, pairs |-> <<>>]

\* e.get("participants") or {}: the mapping, empty for None and for []
PartsOrEmpty(parts) ==
    CASE parts.form = "map" -> parts.map
      [] parts.form = "none" -> <<>>
      [] parts.form = "list" /\ parts.pairs = <<>> -> <<>>

\* bool(data)
Truthy(d) ==
    CASE d.kind = "list" -> d.items # <<>>
      [] d.kind = "dict" -> d.keys # {}
      [] OTHER -> FALSE

\* data or []
OrEmptyList(d) == IF Truthy(d) THEN d ELSE JList(<<>>)

\* data or {}
OrEmptyDict(d) == IF Truthy(d) THEN d ELSE JDict({}, <<>>, <<>>)

(***************************************************************************)
(* compare_service: keys, parsing, similarity.                             *)
(***************************************************************************)
RelationKey(item) ==
    Join(<<"|">>,
         <<item.head, item.head_type, item.relation, item.tail, item.tail_type>>)

\* the record _parse_relations appends for the raw relation r
RelationItem(r, syn, al) ==
    [head |-> _canonical(GetStr(r.head), syn, al),
     head_type |-> GetStr(r.head_type),
     relation |-> GetStr(r.relation),
     tail |-> _canonical(GetStr(r.tail), syn, al),
     tail_type |-> GetStr(r.tail_type),
     confidence |-> r.confidence,
     qualifiers |-> r.qualifiers,
     evidence |-> r.evidence]

\* conf is not None and conf < confidence_min
BelowMin(conf, confidence_min) == conf # NoConf /\ conf < confidence_min

NoParse == [items |-> <<>>, keys |-> {}, by_type |-> NoCounts]

\* the loop of _parse_relations with break in the place of continue
RECURSIVE ParseRelationsLoopBreak(_, _, _, _, _)
ParseRelationsLoopBreak(seq, syn, al, confidence_min, acc) ==
    IF seq = <<>> THEN acc
    ELSE LET r == Head(seq)
             item == RelationItem(r, syn, al)
         IN  IF BelowMin(r.confidence, confidence_min)
             THEN acc
             ELSE ParseRelationsLoopBreak(Tail(seq), syn, al, confidence_min,
                     [items |-> Append(acc.items, item),
                      keys |-> acc.keys \cup {RelationKey(item)},
                      by_type |-> CountUp(acc.by_type, item.relation)])

\* for r in seq: ... of _parse_relations
RECURSIVE ParseRelationsLoop(_, _, _, _, _)
ParseRelationsLoop(seq, syn, al, confidence_min, acc) ==
    IF seq = <<>> THEN acc
    ELSE LET r == Head(seq)
             item == RelationItem(r, syn, al)
         IN  IF BelowMin(r.confidence, confidence_min)
             THEN ParseRelationsLoop(Tail(seq), syn, al, confidence_min, acc)
             ELSE ParseRelationsLoop(Tail(seq), syn, al, confidence_min,
                     [items |-> Append(acc.items, item),
                      keys |-> acc.keys \cup {RelationKey(item)},
                      by_type |-> CountUp(acc.by_type, item.relation)])

_parse_relations(d, syn, al, confidence_min) ==
    LET seq == CASE d.kind = "list" -> d.items
                 [] d.kind = "dict" ->
                      IF "relations" \in d.keys THEN d.relations ELSE <<>>
                 [] OTHER -> <<>>
    IN  ParseRelationsLoop(seq, syn, al, confidence_min, NoParse)

\* norm_parts of an event: every name of every role canonicalised
NormParts(parts, syn, al) ==
    [role \in DOMAIN PartsOrEmpty(parts) |->
        [i \in DOMAIN PartsOrEmpty(parts)[role] |->
            _canonical(PartsOrEmpty(parts)[role][i], syn, al)]]

EventKey(et, norm_parts) ==
    LET roles == Sorted(DOMAIN norm_parts)
        role_sets == Join(<<",">>,
            [i \in DOMAIN roles |->
                roles[i] \o <<":">> \o Join(<<",">>, norm_parts[roles[i]])])
    IN  Join(<<"|">>, <<et, role_sets>>)

NoEvents == [items |-> <<>>, keys |-> {}]

RECURSIVE ParseEventsLoop(_, _, _, _, _)
ParseEventsLoop(seq, syn, al, confidence_min, acc) ==
    IF seq = <<>> THEN acc
    ELSE LET e == Head(seq)
             et == GetStr(e.event_type)
             norm_parts == NormParts(e.participants, syn, al)
         IN  IF BelowMin(e.confidence, confidence_min)
             THEN ParseEventsLoop(Tail(seq), syn, al, confidence_min, acc)
             ELSE ParseEventsLoop(Tail(seq), syn, al, confidence_min,
                     [items |-> Append(acc.items,
                                   [event_type |-> et, participants |-> norm_parts,
                                    evidence |-> e.evidence,
                                    confidence |-> e.confidence]),
                      keys |-> acc.keys \cup {EventKey(et, norm_parts)}])

_parse_events(d, syn, al, confidence_min) ==
    LET seq == IF d.kind = "dict" /\ "events" \in d.keys THEN d.events ELSE <<>>
    IN  ParseEventsLoop(seq, syn, al, confidence_min, NoEvents)

\* _parse_relations raises: "for r in seq" over None is a TypeError, r.get
\* of an entry that is not a mapping an AttributeError
ParseRelationsRaises(d) ==
    CASE d.kind = "list" -> \E i \in DOMAIN d.items : ~IsMapping(d.items[i])
      [] d.kind = "dict" ->
           /\ "relations" \in d.keys
           /\ \/ IsNull(d, "relations")
              \/ \E i \in DOMAIN d.relations : ~IsMapping(d.relations[i])
      [] OTHER -> FALSE

\* _parse_events raises: as _parse_relations, and parts.items() of a
\* non-empty list is an AttributeError
ParseEventsRaises(d) ==
    /\ d.kind = "dict"
    /\ "events" \in d.keys
    /\ \/ IsNull(d, "events")
       \/ \E i \in DOMAIN d.events :
             \/ ~IsMapping(d.events[i])
             \/ /\ IsMapping(d.events[i])
                /\ d.events[i].participants.form = "list"
                /\ d.events[i].participants.pairs # <<>>

\* _jaccard dividing by the size of its first argument
JaccardByFirst(x, y) ==
    IF x = {} /\ y = {} THEN <<1, 1>>
    ELSE LET i == Cardinality(x \cap y)
         IN  IF x # {} THEN <<i, Cardinality(x)>> ELSE <<0, 1>>

\* the quotient i / u is the pair <<i, u>>; 1.0 is <<1, 1>> and 0.0 is <<0, 1>>
_jaccard(x, y) ==
    IF x = {} /\ y = {} THEN <<1, 1>>
    ELSE LET u == Cardinality(x \cup y)
             i == Cardinality(x \cap y)
         IN  IF u # 0 THEN <<i, u>> ELSE <<0, 1>>

\* two quotients are the same float
SameFloat(p, q) == p[1] * q[2] = q[1] * p[2]

(***************************************************************************)
(* normalize_adapter: normalisation.                                       *)
(* A raw alias rule "strip:<text>" is [kind |-> "strip", text]; a rule     *)
(* "regex:<pat>=<rep>" is [kind |-> "regex", eq |-> TRUE, pat, rep, ok],   *)
(* ok telling whether re.compile accepts the pattern; "regex:<text>" with  *)
(* no "=" has eq FALSE; any other string has kind "other".                 *)
(***************************************************************************)
TYPE_ENUM ==
    {<<"P", "e", "r", "s", "o", "n">>,
     <<"L", "o", "c", "a", "t", "i", "o", "n">>,
     <<"I", "t", "e", "m">>,
     <<"S", "p", "e", "l", "l">>,
     <<"O", "r", "g", "a", "n", "i", "z", "a", "t", "i", "o", "n">>,
     <<"D", "e", "i", "t", "y">>}

ALIAS == <<"A", "L", "I", "A", "S">>

AliasRule(kind, text, eq, pat, rep, ok) ==
    [kind |-> kind, text |-> text, eq |-> eq, pat |-> pat, rep |-> rep, ok |-> ok]

RECURSIVE ParseStripTokens(_)
ParseStripTokens(rules) ==
    IF rules = <<>> THEN <<>>
    ELSE (IF Head(rules).kind = "strip" /\ Strip(Head(rules).text) # <<>>
          THEN <<Strip(Head(rules).text)>>
          ELSE <<>>) \o ParseStripTokens(Tail(rules))

RECURSIVE ParseRegexRules(_)
ParseRegexRules(rules) ==
    IF rules = <<>> THEN <<>>
    ELSE (IF Head(rules).kind = "regex" /\ Head(rules).eq /\ Head(rules).ok
          THEN <<[pat |-> Strip(Head(rules).pat), rep |-> Head(rules).rep]>>
          ELSE <<>>) \o ParseRegexRules(Tail(rules))

parse_alias_rules(rules) ==
    [strip_tokens |-> ParseStripTokens(rules), regex_rules |-> ParseRegexRules(rules)]

_relations_from_obj(obj) ==
    CASE obj.kind = "dict" /\ "relations" \in obj.keys -> obj.relations
      [] obj.kind = "dict" /\ "relations" \notin obj.keys
            /\ "relation_with_meta" \in obj.keys -> obj.relation_with_meta
      [] obj.kind = "list" -> obj.items
      [] OTHER -> <<>>

\* x or y or "" on two values that may be None or ""
FirstOf(x, y) ==
    IF x # None /\ x # <<>> THEN x
    ELSE IF y # None /\ y # <<>> THEN y
    ELSE <<>>

\* r.get("qualifiers") or d
QualifiersOr(r, d) == IF r.qualifiers # {} THEN r.qualifiers ELSE d

\* the ALIAS branch looking at the head side before the tail side
AliasItemHeadFirst(r, syn, al) ==
    LET ah == canonical_original(FirstOf(r.head, r.subject), al)
        at == canonical_original(FirstOf(r.tail, r.object), al)
        alias_side == IF SynHas(syn, ah) THEN ah ELSE at
        canonical_side == IF SynHas(syn, ah) THEN SynGet(syn, ah)
                          ELSE IF SynHas(syn, at) THEN SynGet(syn, at)
                          ELSE ah
    IN  [head |-> alias_side, relation |-> ALIAS,
         tail |-> canonical_norm(canonical_side, syn, al),
         confidence |-> r.confidence, evidence |-> r.evidence,
         qualifiers |-> QualifiersOr(r, {<<"alias_source", "evidence_trigger">>}),
         chapter_id |-> None]

\* the record appended for a raw relation whose label is an alias label
AliasItem(r, syn, al) ==
    LET ah == canonical_original(FirstOf(r.head, r.subject), al)
        at == canonical_original(FirstOf(r.tail, r.object), al)
        alias_side == IF SynHas(syn, at) THEN at
                      ELSE IF SynHas(syn, ah) THEN ah
                      ELSE at
        canonical_side == IF SynHas(syn, at) THEN SynGet(syn, at)
                          ELSE IF SynHas(syn, ah) THEN SynGet(syn, ah)
                          ELSE ah
    IN  [head |-> alias_side, relation |-> ALIAS,
         tail |-> canonical_norm(canonical_side, syn, al),
         confidence |-> r.confidence, evidence |-> r.evidence,
         qualifiers |-> QualifiersOr(r, {<<"alias_source", "evidence_trigger">>}),
         chapter_id |-> None]

\* the record appended for any other raw relation
PlainItem(r, syn, al) ==
    [head |-> canonical_norm(FirstOf(r.head, r.subject), syn, al),
     relation |-> FirstOf(r.type, r.relation),
     tail |-> canonical_norm(FirstOf(r.tail, r.object), syn, al),
     confidence |-> r.confidence, evidence |-> r.evidence,
     qualifiers |-> r.qualifiers,
     chapter_id |-> None]

\* the loop body testing the raw endpoints against TYPE_ENUM
NormalizeRelationRawTest(r, syn, al, labels) ==
    LET raw_head == FirstOf(r.head, r.subject)
        raw_tail == FirstOf(r.tail, r.object)
        raw_type == FirstOf(r.type, r.relation)
    IN  IF raw_head = <<>> \/ raw_tail = <<>> \/ raw_type = <<>> THEN <<>>
        ELSE IF raw_type \in labels THEN <<AliasItem(r, syn, al)>>
        ELSE IF raw_head \in TYPE_ENUM \/ raw_tail \in TYPE_ENUM THEN <<>>
        ELSE <<PlainItem(r, syn, al)>>

\* the body of the loop of normalize_relations: what is appended for r
NormalizeRelation(r, syn, al, labels) ==
    LET raw_head == FirstOf(r.head, r.subject)
        raw_tail == FirstOf(r.tail, r.object)
        raw_type == FirstOf(r.type, r.relation)
    IN  IF raw_head = <<>> \/ raw_tail = <<>> \/ raw_type = <<>> THEN <<>>
        ELSE IF raw_type \in labels THEN <<AliasItem(r, syn, al)>>
        ELSE IF \/ PlainItem(r, syn, al).head \in TYPE_ENUM
                \/ PlainItem(r, syn, al).tail \in TYPE_ENUM THEN <<>>
        ELSE <<PlainItem(r, syn, al)>>

RECURSIVE NormalizeLoop(_, _, _, _)
NormalizeLoop(rels, syn, al, labels) ==
    IF rels = <<>> THEN <<>>
    ELSE NormalizeRelation(Head(rels), syn, al, labels)
            \o NormalizeLoop(Tail(rels), syn, al, labels)

normalize_relations(obj, syn, al, labels) ==
    NormalizeLoop(_relations_from_obj(obj), syn, al, labels)

\* d.setdefault(role, []).append(ent) over participants given as a list of
\* {role, entity} pairs
RECURSIVE GroupPairs(_, _, _, _)
GroupPairs(pairs, syn, al, d) ==
    IF pairs = <<>> THEN d
    ELSE LET role == StrOrEmpty(Head(pairs).role)
             ent == canonical_norm(StrOrEmpty(Head(pairs).entity), syn, al)
         IN  GroupPairs(Tail(pairs), syn, al,
                 IF role = <<>> THEN d
                 ELSE [x \in (DOMAIN d) \cup {role} |->
                          IF x = role
                          THEN (IF role \in DOMAIN d THEN d[role] ELSE <<>>) \o <<ent>>
                          ELSE d[x]])

\* participants of a normalised event
NormalizedParts(parts, syn, al) ==
    IF parts.form = "list" /\ parts.pairs # <<>>
    THEN GroupPairs(parts.pairs, syn, al, <<>>)
    ELSE [role \in DOMAIN PartsOrEmpty(parts) |->
             [i \in DOMAIN PartsOrEmpty(parts)[role] |->
                 canonical_norm(PartsOrEmpty(parts)[role][i], syn, al)]]

NormalizeEvent(e, syn, al) ==
    [event_type |-> FirstOf(e.event_type, e.type),
     time |-> e.time, location |-> e.location,
     participants |-> NormalizedParts(e.participants, syn, al),
     evidence |-> e.evidence, confidence |-> e.confidence]

normalize_events(obj, syn, al) ==
    LET evs == IF obj.kind # "dict" THEN <<>>
               ELSE IF "events" \in obj.keys /\ obj.events # <<>> THEN obj.events
               ELSE IF "event_plus_relation" \in obj.keys THEN obj.event_plus_relation
               ELSE <<>>
    IN  [i \in DOMAIN evs |-> NormalizeEvent(evs[i], syn, al)]

\* seen/out of collect_entities after the names ns, in order
RECURSIVE AddNames(_, _)
AddNames(ns, acc) ==
    IF ns = <<>> THEN acc
    ELSE AddNames(Tail(ns),
            IF Head(ns) # <<>> /\ Head(ns) # None
                  /\ ~\E i \in DOMAIN acc : acc[i].name = Head(ns)
            THEN Append(acc, [name |-> Head(ns)])
            ELSE acc)

RECURSIVE HeadsAndTails(_)
HeadsAndTails(rels) ==
    IF rels = <<>> THEN <<>>
    ELSE <<Head(rels).head, Head(rels).tail>> \o HeadsAndTails(Tail(rels))

collect_entities(rels, entities_hint, syn, al) ==
    AddNames([i \in DOMAIN entities_hint |->
                 canonical_norm(entities_hint[i].name, syn, al)],
             AddNames(HeadsAndTails(rels), <<>>))

\* one synthetic ALIAS record of normalize_output
ExtraAlias(key, target) ==
    [head |-> key, relation |-> ALIAS, tail |-> target,
     confidence |-> 99, evidence |-> None,
     qualifiers |-> {<<"alias_source", "synonyms_map">>},
     chapter_id |-> None]

normalize_output(raw, tpl_id, synonyms_map, rules, labels) ==
    LET al == parse_alias_rules(rules)
        rels == normalize_relations(raw, synonyms_map, al, labels)
        entities_hint == IF raw.kind = "dict" /\ "entities" \in raw.keys
                         THEN raw.entities ELSE <<>>
        extra_alias == [i \in DOMAIN synonyms_map |->
                           ExtraAlias(synonyms_map[i][1], synonyms_map[i][2])]
    IN  [entities |-> collect_entities(rels, entities_hint, synonyms_map, al),
         relations |-> rels \o extra_alias,
         events |-> normalize_events(raw, synonyms_map, al),
         meta |-> IF raw.kind # "dict" THEN JDict({}, <<>>, <<>>)
                  ELSE IF "meta" \in raw.keys THEN raw.meta ELSE NoData]

(***************************************************************************)
(* compare_service: settings, result files, compare_chapter.               *)
(* A result file is [state |-> "missing"], "blank" (nothing but            *)
(* whitespace), "garbage" (text json.loads rejects) or "json" with the     *)
(* value json.loads returns.  A path under results_dir is [tpl, model]:    *)
(* the "__tpl-" and "__model-" parts of the file name, None when absent;   *)
(* book and chapter are those of the query.                                *)
(***************************************************************************)
\* m[k] = v on an insertion-ordered dict
SynPut(m, k, v) ==
    IF SynHas(m, k)
    THEN [i \in DOMAIN m |-> IF m[i][1] = k THEN <<k, v>> ELSE m[i]]
    ELSE Append(m, <<k, v>>)

RECURSIVE SynUpdate(_, _)
SynUpdate(m, entries) ==
    IF entries = <<>> THEN m
    ELSE SynUpdate(SynPut(m, Head(entries)[1], Head(entries)[2]), Tail(entries))

\* the ids of tpl_ids
IdSet(tpl_ids) == {tpl_ids[i] : i \in DOMAIN tpl_ids}

RECURSIVE MergeSynonymsLoop(_, _, _)
MergeSynonymsLoop(templates, tpl_ids, m) ==
    IF templates = <<>> THEN m
    ELSE MergeSynonymsLoop(Tail(templates), tpl_ids,
            IF Head(templates).id \in IdSet(tpl_ids)
            THEN SynUpdate(m, Head(templates).variables.synonyms_map)
            ELSE m)

_merge_synonyms(st, tpl_ids) == MergeSynonymsLoop(st.prompts.templates, tpl_ids, <<>>)

RECURSIVE CollectRulesLoop(_, _)
CollectRulesLoop(templates, tpl_ids) ==
    IF templates = <<>> THEN <<>>
    ELSE (IF Head(templates).id \in IdSet(tpl_ids)
          THEN Head(templates).variables.alias_rules
          ELSE <<>>) \o CollectRulesLoop(Tail(templates), tpl_ids)

_collect_alias_rules(st, tpl_ids) ==
    [strip_tokens |-> ParseStripTokens(CollectRulesLoop(st.prompts.templates, tpl_ids)),
     regex_rules |-> ParseRegexRules(CollectRulesLoop(st.prompts.templates, tpl_ids))]

FileMissing == [state |-> "missing"]
FileBlank == [state |-> "blank"]
FileGarbage == [state |-> "garbage"]
FileJson(d) == [state |-> "json", value |-> d]

_read_result(file) == IF file.state = "json" THEN file.value ELSE NoData

Path(tpl, model) == [tpl |-> tpl, model |-> model]

\* lm_name.replace(' ', '_').replace('/', '_')
Sanitize(s) == [i \in DOMAIN s |-> IF s[i] \in {" ", "/"} THEN "_" ELSE s[i]]

_candidate_paths(default_tpl, tpl_id, st, model_name_hint) ==
    LET name_tpl == IF tpl_id # None /\ tpl_id # <<>> /\ tpl_id # default_tpl
                    THEN tpl_id ELSE None
        lm_name == IF model_name_hint # None /\ model_name_hint # <<>>
                   THEN model_name_hint ELSE st.llm.model_name
    IN  <<Path(name_tpl, None)>> \o
        (IF st.results.use_model_suffix /\ lm_name # None /\ lm_name # <<>>
         THEN <<Path(name_tpl, Sanitize(lm_name))>>
         ELSE <<>>)

\* data after "for fp in files: data = _read_result(fp); if data: break"
RECURSIVE LoadData(_, _, _)
LoadData(paths, fs, d) ==
    IF paths = <<>> THEN d
    ELSE IF Truthy(_read_result(fs[Head(paths)])) THEN _read_result(fs[Head(paths)])
    ELSE LoadData(Tail(paths), fs, _read_result(fs[Head(paths)]))

\* what one pass of the loop over tpl_ids stores for tpl
TemplateResult(tpl, q, st, fs) ==
    LET syn == _merge_synonyms(st, q.templates)
        al == _collect_alias_rules(st, q.templates)
        d == LoadData(_candidate_paths(st.prompts.selected, tpl, st, q.model_name),
                      fs, NoData)
    IN  [rel |-> _parse_relations(OrEmptyList(d), syn, al, q.confidence_min),
         evt |-> IF q.include_events
                 THEN _parse_events(OrEmptyDict(d), syn, al, q.confidence_min)
                 ELSE NoEvents]

\* the pass of the loop over tpl_ids for tpl raises
TemplateRaises(tpl, q, st, fs) ==
    LET d == LoadData(_candidate_paths(st.prompts.selected, tpl, st, q.model_name),
                      fs, NoData)
    IN  \/ ParseRelationsRaises(OrEmptyList(d))
        \/ q.include_events /\ ParseEventsRaises(OrEmptyDict(d))

\* compare_chapter raises instead of returning
CompareRaises(q, st, fs) ==
    \E i \in DOMAIN q.templates : TemplateRaises(q.templates[i], q, st, fs)

\* set().union(*sets.values())
UnionOf(sets) == UNION {sets[t] : t \in DOMAIN sets}

\* the intersection computed for a single key set as well
IntersectionOfAny(sets) == {k \in UnionOf(sets) : \A t \in DOMAIN sets : k \in sets[t]}

\* set.intersection(*sets.values()) if sets and len(sets) > 1 else set()
IntersectionOf(sets) ==
    IF Cardinality(DOMAIN sets) > 1
    THEN {k \in UnionOf(sets) : \A t \in DOMAIN sets : k \in sets[t]}
    ELSE {}

\* the similarity reported without looking at the second template
PairJaccardFirstOnly(tpl_ids, sets) ==
    IF Len(tpl_ids) = 2 THEN _jaccard(sets[tpl_ids[1]], sets[tpl_ids[1]]) ELSE <<0, 1>>

\* the similarity of the first two templates of a longer list as well
PairJaccardAnyLength(tpl_ids, sets) ==
    IF Len(tpl_ids) >= 2 THEN _jaccard(sets[tpl_ids[1]], sets[tpl_ids[2]]) ELSE <<0, 1>>

\* rel_j / evt_j
PairJaccard(tpl_ids, sets) ==
    IF Len(tpl_ids) = 2 THEN _jaccard(sets[tpl_ids[1]], sets[tpl_ids[2]]) ELSE <<0, 1>>

RECURSIVE MinOf(_)
MinOf(s) ==
    IF Len(s) = 1 THEN s[1]
    ELSE IF s[1] <= MinOf(Tail(s)) THEN s[1] ELSE MinOf(Tail(s))

UnionField == <<"u", "n", "i", "o", "n">>
IntersectionField == <<"i", "n", "t", "e", "r", "s", "e", "c", "t", "i", "o", "n">>

\* by_relation_type with "intersection" taken over the templates that hold
\* the type
ByRelationTypePresentOnly(tpl_ids, by_all) ==
    LET types == UNION {DOMAIN by_all[t] : t \in DOMAIN by_all}
        counts(ty) == [i \in DOMAIN tpl_ids |-> CountOf(by_all[tpl_ids[i]], ty)]
    IN  [ty \in types |->
            [k \in IdSet(tpl_ids) \cup {UnionField, IntersectionField} |->
                IF k = IntersectionField
                THEN MinOf(SelectSeq(counts(ty), LAMBDA c : c > 0))
                ELSE IF k = UnionField THEN SumSeq(counts(ty))
                ELSE CountOf(by_all[k], ty)]]

\* by_relation_type[t]: the per-template counts, then "union", then
\* "intersection" assigned into the same dict
ByRelationType(tpl_ids, by_all) ==
    LET types == UNION {DOMAIN by_all[t] : t \in DOMAIN by_all}
        counts(ty) == [i \in DOMAIN tpl_ids |-> CountOf(by_all[tpl_ids[i]], ty)]
    IN  [ty \in types |->
            [k \in IdSet(tpl_ids) \cup {UnionField, IntersectionField} |->
                IF k = IntersectionField THEN MinOf(counts(ty))
                ELSE IF k = UnionField THEN SumSeq(counts(ty))
                ELSE CountOf(by_all[k], ty)]]

SampleLimit == 10

\* the key sets list(union)[:10] can hold: a set has no order of its own
Samples(union) ==
    {s \in SUBSET union :
        Cardinality(s) = IF Cardinality(union) < SampleLimit
                         THEN Cardinality(union) ELSE SampleLimit}

\* the report for the samples smp_rel, smp_evt; lists built from sets are
\* sets, and meta.timestamp, the wall clock, is left out
compare_chapter(q, st, fs, smp_rel, smp_evt) ==
    LET tpl_ids == q.templates
        res == [t \in IdSet(tpl_ids) |-> TemplateResult(t, q, st, fs)]
        rel_sets == [t \in IdSet(tpl_ids) |-> res[t].rel.keys]
        evt_sets == [t \in IdSet(tpl_ids) |-> res[t].evt.keys]
        by_rel_type_all == [t \in IdSet(tpl_ids) |-> res[t].rel.by_type]
        rel_inter == IntersectionOf(rel_sets)
        evt_inter == IntersectionOf(evt_sets)
    IN  [meta |-> [book |-> q.book, chapter_id |-> q.chapter_id,
                   templates |-> Join(<<",">>, tpl_ids),
                   model_name |-> StrOrEmpty(q.model_name),
                   filters |-> [confidence_min |-> q.confidence_min,
                                include_events |-> q.include_events]],
         metrics |->
            [relations_count_by_template |->
                 [t \in IdSet(tpl_ids) |-> Len(res[t].rel.items)],
             events_count_by_template |->
                 [t \in IdSet(tpl_ids) |-> Len(res[t].evt.items)],
             relations_union_count |-> Cardinality(UnionOf(rel_sets)),
             relations_intersection_count |-> Cardinality(rel_inter),
             relations_jaccard |-> PairJaccard(tpl_ids, rel_sets),
             events_union_count |-> Cardinality(UnionOf(evt_sets)),
             events_intersection_count |-> Cardinality(evt_inter),
             events_jaccard |-> PairJaccard(tpl_ids, evt_sets),
             by_relation_type |-> ByRelationType(tpl_ids, by_rel_type_all)],
         diffs |->
            [relations_unique |-> [t \in IdSet(tpl_ids) |-> rel_sets[t] \ rel_inter],
             relations_intersection |-> rel_inter,
             events_unique |-> [t \in IdSet(tpl_ids) |-> evt_sets[t] \ evt_inter],
             events_intersection |-> evt_inter],
         samples |-> [relations |-> smp_rel, events |-> smp_evt]]

\* the reports compare_chapter can return, one for each choice of samples
ChapterReports(q, st, fs) ==
    {compare_chapter(q, st, fs, smp_rel, smp_evt) :
        smp_rel \in Samples(UnionOf([t \in IdSet(q.templates) |->
                                        TemplateResult(t, q, st, fs).rel.keys])),
        smp_evt \in Samples(UnionOf([t \in IdSet(q.templates) |->
                                        TemplateResult(t, q, st, fs).evt.keys]))}

(***************************************************************************)
(* compare_service: batches.  The results directory is modelled by the     *)
(* files of one chapter of one book; every other chapter and every other   *)
(* book has no result file.                                                *)
(***************************************************************************)
Book == <<"x", "i", "y", "o", "u">>
OtherBook == <<"o", "t", "h", "e", "r">>
Chapter1 == <<"0", "0", "1">>
Chapter2 == <<"0", "0", "2">>

\* the result files of chapter cid of book bk, by path
FilesOf(fs, bk, cid) ==
    IF bk = Book /\ cid = Chapter1 THEN fs ELSE [p \in DOMAIN fs |-> FileMissing]

Digits == <<"0", "1", "2", "3", "4", "5", "6", "7", "8", "9">>

\* int(s) succeeds: s is a run of decimal digits (signs, blanks and
\* underscores, which int() also takes, are not drawn)
IsNumeral(s) == s # None /\ s # <<>> /\ \A i \in DOMAIN s : \E d \in DOMAIN Digits : Digits[d] = s[i]

RECURSIVE IntOf(_)
IntOf(s) ==
    IF s = <<>> THEN 0
    ELSE 10 * IntOf(SubSeq(s, 1, Len(s) - 1))
         + (CHOOSE d \in 0..9 : Digits[d + 1] = s[Len(s)])

RECURSIVE DecimalOf(_)
DecimalOf(i) == IF i < 10 THEN <<Digits[i + 1]>> ELSE Append(DecimalOf(i \div 10), Digits[(i % 10) + 1])

\* f"{i:03d}" of a natural number
Format03(i) ==
    [k \in 1..(3 - Len(DecimalOf(i))) |-> "0"] \o DecimalOf(i)

\* the chapter ids compare_batch visits
BatchIds(payload) ==
    IF payload.chapter_ids # None /\ payload.chapter_ids # <<>>
    THEN payload.chapter_ids
    ELSE IF payload.chapter_range # None /\ Len(payload.chapter_range) = 2
    THEN IF IsNumeral(payload.chapter_range[1]) /\ IsNumeral(payload.chapter_range[2])
         THEN [k \in 1..(IntOf(payload.chapter_range[2]) - IntOf(payload.chapter_range[1]) + 1) |->
                 Format03(IntOf(payload.chapter_range[1]) + k - 1)]
         ELSE <<>>
    ELSE <<>>

\* the CompareChapterQuery compare_batch builds for chapter cid
ChapterQuery(payload, cid) ==
    [book |-> payload.book, chapter_id |-> cid, templates |-> payload.templates,
     confidence_min |-> payload.confidence_min,
     include_events |-> payload.include_events, model_name |-> payload.model_name]

\* the lists per can be after the loop over ids
RECURSIVE PerChapter(_, _, _, _)
PerChapter(ids, payload, st, fs) ==
    IF ids = <<>> THEN {<<>>}
    ELSE {<<[chapter_id |-> Head(ids), metrics |-> res.metrics, diffs |-> res.diffs,
             samples |-> res.samples]>> \o rest :
             res \in ChapterReports(ChapterQuery(payload, Head(ids)), st,
                                    FilesOf(fs, payload.book, Head(ids))),
             rest \in PerChapter(Tail(ids), payload, st, fs)}

\* rel_sum[tpl] had each chapter assigned its count in the place of adding it
BatchSumLast(per, field, tpl) ==
    IF per = <<>> THEN 0 ELSE per[Len(per)].metrics[field][tpl]

\* rel_sum[tpl], evt_sum[tpl] after the loop over ids
BatchSum(per, field, tpl) ==
    SumSeq([i \in DOMAIN per |-> per[i].metrics[field][tpl]])

\* compare_batch raises: one of its compare_chapter calls does
BatchRaises(payload, st, fs) ==
    \E i \in DOMAIN BatchIds(payload) :
        CompareRaises(ChapterQuery(payload, BatchIds(payload)[i]), st,
                      FilesOf(fs, payload.book, BatchIds(payload)[i]))

\* the value compare_batch returns when its loop left per; meta.filters and
\* meta.timestamp are left out
compare_batch(payload, per) ==
    [meta |-> [book |-> payload.book, chapter_ids |-> BatchIds(payload),
               templates |-> Join(<<",">>, payload.templates),
               model_name |-> StrOrEmpty(payload.model_name)],
     summary |->
        [relations_count_by_template |->
             [t \in IdSet(payload.templates) |->
                 BatchSum(per, "relations_count_by_template", t)],
         events_count_by_template |->
             [t \in IdSet(payload.templates) |->
                 BatchSum(per, "events_count_by_template", t)]],
     per_chapter |-> per]

\* the CompareBatchQuery compare_batch_books builds for book bk
BookQuery(payload, bk) ==
    [book |-> bk, chapter_ids |-> payload.chapter_ids,
     chapter_range |-> payload.chapter_range, templates |-> payload.templates,
     confidence_min |-> payload.confidence_min,
     include_events |-> payload.include_events, model_name |-> payload.model_name]

\* the values compare_batch can return
BatchReports(payload, st, fs) ==
    {compare_batch(payload, per) : per \in PerChapter(BatchIds(payload), payload, st, fs)}

\* the lists of the values of out, in the order of books, after the loop
RECURSIVE PerBook(_, _, _, _)
PerBook(books, payload, st, fs) ==
    IF books = <<>> THEN {<<>>}
    ELSE {<<r>> \o rest : r \in BatchReports(BookQuery(payload, Head(books)), st, fs),
                           rest \in PerBook(Tail(books), payload, st, fs)}

\* compare_batch_books raises: one of its compare_batch calls does
BatchBooksRaises(payload, st, fs) ==
    \E i \in DOMAIN payload.books : BatchRaises(BookQuery(payload, payload.books[i]), st, fs)

\* the value compare_batch_books returns when its loop left the reports
\* per; per_book[bk] is the report of the last occurrence of bk in books
compare_batch_books(payload, per) ==
    [meta |-> [books |-> payload.books, templates |-> Join(<<",">>, payload.templates),
               model_name |-> StrOrEmpty(payload.model_name)],
     summary_total |->
        [relations_count_by_template |->
             [t \in IdSet(payload.templates) |->
                 SumSeq([i \in DOMAIN per |->
                     per[i].summary.relations_count_by_template[t]])],
         events_count_by_template |->
             [t \in IdSet(payload.templates) |->
                 SumSeq([i \in DOMAIN per |->
                     per[i].summary.events_count_by_template[t]])]],
     per_book |->
        [bk \in {payload.books[i] : i \in DOMAIN payload.books} |->
            per[CHOOSE i \in DOMAIN per :
                    /\ payload.books[i] = bk
                    /\ \A j \in DOMAIN per : payload.books[j] = bk => j <= i]]]

(***************************************************************************)
(* normalize_adapter: calibration.                                         *)
(* A relation record is [head, relation, tail, confidence, evidence,       *)
(* qualifiers, chapter_id]; a pattern is [relation, include, exclude].     *)
(***************************************************************************)
\* str(x) of a value that may be None
Str(x) == IF x = None THEN <<"N", "o", "n", "e">> ELSE x

\* any(k in ev for k in kws)
AnyIn(kws, ev) == \E i \in DOMAIN kws : Contains(ev, kws[i])

\* inc and any(k in ev for k in inc) and not any(x in ev for x in exc)
PatternMatches(p, ev) ==
    /\ p.include # <<>>
    /\ AnyIn(p.include, ev)
    /\ ~AnyIn(p.exclude, ev)

\* nr = dict(r); nr["relation"] = rel
Relabelled(r, rel) == [r EXCEPT !.relation = rel]

\* the inner loop over the patterns: the copies appended for r
RECURSIVE PatternCopies(_, _, _)
PatternCopies(r, ev, patterns) ==
    IF patterns = <<>> THEN <<>>
    ELSE (IF PatternMatches(Head(patterns), ev)
          THEN <<Relabelled(r, Head(patterns).relation)>>
          ELSE <<>>) \o PatternCopies(r, ev, Tail(patterns))

\* the body of the loop over the relations, appending r after its copies
FanOutKeepingOriginal(r, patterns) ==
    PatternCopies(r, StrOrEmpty(r.evidence), patterns) \o <<r>>

\* the body of the loop over the relations without "if not added"
FanOutCopiesOnly(r, patterns) ==
    PatternCopies(r, StrOrEmpty(r.evidence), patterns)

\* the body of the loop over the relations: what is appended to out for r
FanOut(r, patterns) ==
    LET copies == PatternCopies(r, StrOrEmpty(r.evidence), patterns)
    IN  IF copies # <<>> THEN copies ELSE <<r>>

RECURSIVE CalibrateLoop(_, _)
CalibrateLoop(rels, patterns) ==
    IF rels = <<>> THEN <<>>
    ELSE FanOut(Head(rels), patterns) \o CalibrateLoop(Tail(rels), patterns)

\* the closing filter letting every record through
AllowedAll(res, allowed) == res

\* the closing vocabulary filter
AllowedOnly(res, allowed) ==
    IF allowed # {}
    THEN SelectSeq(res, LAMBDA x : Str(x.relation) \in allowed \/ allowed = {})
    ELSE res

calibrate_relations(rels, st) ==
    AllowedOnly(CalibrateLoop(rels, st.relations.patterns), st.relations.allowed)

(***************************************************************************)
(* normalize_adapter: fusion.                                              *)
(***************************************************************************)
\* the grouping key of r
GroupKey(r, fusion) ==
    IF fusion.group_by = "head_tail"
    THEN Str(r.head) \o <<"|">> \o Str(r.tail)
    ELSE Str(r.head) \o <<"|">> \o Str(r.tail) \o <<"|">> \o Str(r.relation)

\* the keys of groups, in the order the dict received them
RECURSIVE GroupKeys(_, _, _)
GroupKeys(rels, fusion, seen) ==
    IF rels = <<>> THEN seen
    ELSE LET k == GroupKey(Head(rels), fusion)
         IN  GroupKeys(Tail(rels), fusion,
                 IF \E i \in DOMAIN seen : seen[i] = k THEN seen ELSE Append(seen, k))

\* groups[k]
GroupItems(rels, fusion, k) ==
    SelectSeq(rels, LAMBDA r : GroupKey(r, fusion) = k)

\* x.get("confidence") or 0.0
ConfOrZero(c) == IF c = NoConf THEN 0 ELSE c

\* pri of rel_rank
Pri(r, precedence) ==
    IF \E i \in DOMAIN precedence : precedence[i] = r.relation
    THEN (CHOOSE i \in DOMAIN precedence :
              /\ precedence[i] = r.relation
              /\ \A j \in 1..(i - 1) : precedence[j] # r.relation) - 1
    ELSE Len(precedence)

\* rel_rank(x) < rel_rank(y) on the tuples (pri, -conf)
RankLess(x, y, precedence) ==
    \/ Pri(x, precedence) < Pri(y, precedence)
    \/ /\ Pri(x, precedence) = Pri(y, precedence)
       /\ ConfOrZero(x.confidence) > ConfOrZero(y.confidence)

\* the first of the most confident items, whatever their labels
WinnerByConfidence(items, precedence) ==
    items[CHOOSE i \in DOMAIN items :
              /\ \A j \in DOMAIN items :
                    ConfOrZero(items[j].confidence) <= ConfOrZero(items[i].confidence)
              /\ \A j \in 1..(i - 1) :
                    ConfOrZero(items[j].confidence) < ConfOrZero(items[i].confidence)]

\* sorted(items, key=rel_rank)[0]: sorted is stable, so the first item among
\* those of least rank
Winner(items, precedence) ==
    items[CHOOSE i \in DOMAIN items :
              /\ \A j \in DOMAIN items : ~RankLess(items[j], items[i], precedence)
              /\ \A j \in 1..(i - 1) : RankLess(items[i], items[j], precedence)]

\* ev_set: the evidence values that are strings, under the union policy
EvidenceSet(items, fusion) ==
    {items[i].evidence : i \in {j \in DOMAIN items :
        fusion.evidence_merge = "union" /\ items[j].evidence # None}}

MaxOf(s) == CHOOSE x \in {s[i] : i \in DOMAIN s} : \A i \in DOMAIN s : s[i] <= x

\* the merged confidence taken from the first record of the group
FirstConfidence(items, fusion) ==
    <<ConfOrZero(items[1].confidence), 1>>

\* the merged confidence, as a quotient of hundredths
MergedConfidence(items, fusion) ==
    LET confidences == [i \in DOMAIN items |-> ConfOrZero(items[i].confidence)]
    IN  IF fusion.confidence_merge = "max"
        THEN <<MaxOf(confidences), 1>>
        ELSE <<SumSeq(confidences), Len(confidences)>>

\* [it.get("chapter_id") for it in items if it.get("chapter_id")]
Chapters(items) ==
    LET kept == SelectSeq(items, LAMBDA it : it.chapter_id # None /\ it.chapter_id # <<>>)
    IN  [i \in DOMAIN kept |-> kept[i].chapter_id]

\* the record appended to out for one group
FuseGroup(items, st) ==
    LET winner == Winner(items, st.relations.precedence)
        chapters == Chapters(items)
    IN  [head |-> winner.head,
         tail |-> winner.tail,
         relation |-> winner.relation,
         confidence |-> MergedConfidence(items, st.fusion),
         evidence |-> Join(<<" ", "|", " ">>, Sorted(EvidenceSet(items, st.fusion))),
         qualifiers |-> [chapters |-> chapters],
         chapter_id |-> IF st.fusion.chapter_strategy = "first" /\ chapters # <<>>
                        THEN chapters[1] ELSE None]

\* fusion that emits one record for every input record
FuseEach(rels, st) ==
    [i \in DOMAIN rels |-> FuseGroup(<<rels[i]>>, st)]

fuse_relations(rels, st) ==
    LET keys == GroupKeys(rels, st.fusion, <<>>)
    IN  [i \in DOMAIN keys |->
            FuseGroup(GroupItems(rels, st.fusion, keys[i]), st)]

(***************************************************************************)
(* normalize_adapter: the objects of a call.  A heap is the list of the    *)
(* dicts that exist, a reference the position of a dict in it; the         *)
(* relations passed in are the dicts 1 .. Len(rels), and every dict the    *)
(* call creates is appended.  A step is [heap, ref].                       *)
(***************************************************************************)
\* nr = r, the dict itself in the place of a copy
DictAlias(heap, r) == [heap |-> heap, ref |-> r]

\* nr = dict(r)
DictCopy(heap, r) == [heap |-> Append(heap, heap[r]), ref |-> Len(heap) + 1]

\* the inner loop over the patterns: [heap, out, added] after it
RECURSIVE PatternObjects(_, _, _, _, _, _)
PatternObjects(r, ev, patterns, heap, res, added) ==
    IF patterns = <<>> THEN [heap |-> heap, out |-> res, added |-> added]
    ELSE IF PatternMatches(Head(patterns), ev)
    THEN LET nr == DictCopy(heap, r)
         IN  PatternObjects(r, ev, Tail(patterns),
                 [nr.heap EXCEPT ![nr.ref].relation = Head(patterns).relation],
                 Append(res, nr.ref), TRUE)
    ELSE PatternObjects(r, ev, Tail(patterns), heap, res, added)

\* the loop over the relations: [heap, out] after it
RECURSIVE CalibrateObjects(_, _, _, _)
CalibrateObjects(refs, patterns, heap, res) ==
    IF refs = <<>> THEN [heap |-> heap, out |-> res]
    ELSE LET step == PatternObjects(Head(refs), StrOrEmpty(heap[Head(refs)].evidence),
                                    patterns, heap, res, FALSE)
         IN  CalibrateObjects(Tail(refs), patterns, step.heap,
                 IF step.added THEN step.out ELSE Append(step.out, Head(refs)))

\* the dicts of rels as calibrate_relations(rels, st) leaves them
AfterCalibrate(rels, st) ==
    LET done == CalibrateObjects([i \in DOMAIN rels |-> i], st.relations.patterns,
                                 rels, <<>>)
    IN  [i \in DOMAIN rels |-> done.heap[i]]

\* the list calibrate_relations returns, read through the references
CalibratedObjects(rels, st) ==
    LET done == CalibrateObjects([i \in DOMAIN rels |-> i], st.relations.patterns,
                                 rels, <<>>)
    IN  AllowedOnly([i \in DOMAIN done.out |-> done.heap[done.out[i]]],
                    st.relations.allowed)

\* the merged evidence and chapter written into the winner as well
FusedIntoWinner(heap, w, fused) ==
    [heap |-> Append([heap EXCEPT ![w].evidence = fused.evidence,
                                  ![w].chapter_id = fused.chapter_id], fused),
     ref |-> Len(heap) + 1]

\* out.append({...}): the fused record is a new dict; w is the winner
NewFused(heap, w, fused) == [heap |-> Append(heap, fused), ref |-> Len(heap) + 1]

\* groups[k], as references
GroupRefs(rels, fusion, k) ==
    SelectSeq([i \in DOMAIN rels |-> i], LAMBDA i : GroupKey(rels[i], fusion) = k)

\* the loop over the groups: the heap after it
RECURSIVE FuseObjects(_, _, _)
FuseObjects(groups, st, heap) ==
    IF groups = <<>> THEN heap
    ELSE LET refs == Head(groups)
             items == [j \in DOMAIN refs |-> heap[refs[j]]]
             winner == Winner(items, st.relations.precedence)
             w == refs[CHOOSE j \in DOMAIN refs :
                          /\ items[j] = winner
                          /\ \A i \in DOMAIN refs : items[i] = winner => j <= i]
         IN  FuseObjects(Tail(groups), st, NewFused(heap, w, FuseGroup(items, st)).heap)

\* the dicts of rels as fuse_relations(rels, st) leaves them
AfterFuse(rels, st) ==
    LET keys == GroupKeys(rels, st.fusion, <<>>)
        done == FuseObjects([i \in DOMAIN keys |-> GroupRefs(rels, st.fusion, keys[i])],
                            st, rels)
    IN  [i \in DOMAIN rels |-> done[i]]

(***************************************************************************)
(* ingest_neo4j: ingestion.  The results directory of a book is the list   *)
(* os.listdir returns: files [chapter, data], chapter being the part of    *)
(* the name between "result_" and the first "__" or ".json" and data the   *)
(* dict json.load returns.  A session is the list of the statements run,   *)
(* in order: [kind |-> "entity", ...], "relation" or "event" with the      *)
(* parameters of the statement; the JSON texts among them are left out.    *)
(***************************************************************************)
MULTI == <<"M", "U", "L", "T", "I">>

\* list_target_books; corpora.items is not drawn
list_target_books(cfg) ==
    IF cfg.corpora.mode = "single"
    THEN IF cfg.corpora.default # None /\ cfg.corpora.default # <<>>
         THEN <<cfg.corpora.default>> ELSE <<>>
    ELSE cfg.corpora.include

\* meta.get(k) of the meta of a result file
MetaGet(d, k) ==
    IF "meta" \in d.keys /\ d.meta.kind = "dict" /\ k \in d.meta.keys
    THEN d.meta[k] ELSE None

\* next((t for t in templates if t.get("id") == tpl_id), {}), as its variables
TemplateVariables(st, tpl_id) ==
    LET hits == SelectSeq(st.prompts.templates, LAMBDA t : t.id = tpl_id)
    IN  IF hits # <<>> THEN hits[1].variables
        ELSE [synonyms_map |-> <<>>, alias_rules |-> <<>>]

\* kg of one pass of the loop over names
FileKg(f, st) ==
    LET tpl_id == IF MetaGet(f.data, "template_id") \notin {None, <<>>}
                  THEN MetaGet(f.data, "template_id") ELSE st.prompts.selected
    IN  normalize_output(f.data, tpl_id, TemplateVariables(st, tpl_id).synonyms_map,
                         TemplateVariables(st, tpl_id).alias_rules,
                         st.relations.alias_relations)

\* chapter_id of one pass of the loop over names
FileChapter(f) ==
    IF MetaGet(f.data, "chapter_id") \notin {None, <<>>}
    THEN MetaGet(f.data, "chapter_id") ELSE f.chapter

\* nr = dict(r); nr["chapter_id"] = chapter_id
Stamped(r, chapter_id) == [r EXCEPT !.chapter_id = chapter_id]

\* all_rel after the loop over names
RECURSIVE AllRel(_, _)
AllRel(listing, st) ==
    IF listing = <<>> THEN <<>>
    ELSE [i \in DOMAIN FileKg(Head(listing), st).relations |->
             Stamped(FileKg(Head(listing), st).relations[i], FileChapter(Head(listing)))]
         \o AllRel(Tail(listing), st)

\* the statement neo4j_upsert runs for the relation rel
RelationStatement(rel, book_key, chapter_id) ==
    [kind |-> "relation", h |-> rel.head, t |-> rel.tail, rt |-> rel.relation,
     bk |-> book_key,
     cid |-> IF rel.chapter_id # None /\ rel.chapter_id # <<>>
             THEN rel.chapter_id ELSE chapter_id,
     conf |-> rel.confidence, ev |-> rel.evidence]

\* the statement neo4j_upsert_events runs for the event evt
EventStatement(evt, book_key, chapter_id) ==
    [kind |-> "event", et |-> evt.event_type, bk |-> book_key, cid |-> chapter_id,
     tm |-> evt.time, loc |-> evt.location, ev |-> evt.evidence,
     conf |-> evt.confidence]

\* neo4j_upsert: the entities, then the relations; kg_rel holds no event
neo4j_upsert(kg_rel, book_key, chapter_id) ==
    [i \in DOMAIN kg_rel.entities |-> [kind |-> "entity", name |-> kg_rel.entities[i].name]]
    \o [i \in DOMAIN kg_rel.relations |->
            RelationStatement(kg_rel.relations[i], book_key, chapter_id)]

\* the statements of the loop over events_list
RECURSIVE EventStatements(_, _, _)
EventStatements(listing, st, book_key) ==
    IF listing = <<>> THEN <<>>
    ELSE [i \in DOMAIN FileKg(Head(listing), st).events |->
             EventStatement(FileKg(Head(listing), st).events[i], book_key,
                            FileChapter(Head(listing)))]
         \o EventStatements(Tail(listing), st, book_key)

\* kg_rel of one pass of the loop over books
KgRel(listing, st) ==
    LET fused_rel == fuse_relations(calibrate_relations(AllRel(listing, st), st), st)
    IN  [entities |-> AddNames(HeadsAndTails(fused_rel), <<>>),
         relations |-> fused_rel,
         events |-> <<>>]

\* the statements of one pass of the loop over books
BookSession(listing, st, bk) ==
    neo4j_upsert(KgRel(listing, st), bk, MULTI) \o EventStatements(listing, st, bk)

\* the statements ingest_results runs, dir[bk] being the listing of book bk
RECURSIVE IngestBooks(_, _, _)
IngestBooks(books, dir, st) ==
    IF books = <<>> THEN <<>>
    ELSE BookSession(dir[Head(books)], st, Head(books)) \o IngestBooks(Tail(books), dir, st)

ingest_results(dir, st) == IngestBooks(list_target_books(st), dir, st)

(***************************************************************************)
(* Configurations drawn as inputs.                                         *)
(***************************************************************************)
SynKeyPool == {<<"a">>, <<"b">>}
SynValPool == {<<"b">>, <<"a", "b">>, <<" ", "a">>}

\* insertion-ordered tables with pairwise different keys
SynMaps ==
    {s \in SeqsUpTo(SynKeyPool \X SynValPool, MaxSyn) :
        \A i, j \in DOMAIN s : s[i][1] = s[j][1] => i = j}

\* parse_alias_rules keeps a strip token only if it is non-empty after strip()
StripTokenPool == {<<"a">>, <<"a", "b">>}

\* literal patterns; parse_alias_rules compiles pat.strip()
RegexRulePool ==
    {[pat |-> <<"b">>, rep |-> <<"a">>], [pat |-> <<"a", "a">>, rep |-> <<" ">>]}

AliasSets ==
    {[strip_tokens |-> t, regex_rules |-> r] :
        t \in SeqsUpTo(StripTokenPool, MaxStripTokens),
        r \in SeqsUpTo(RegexRulePool, MaxRegexRules)}

NoAlias == [strip_tokens |-> <<>>, regex_rules |-> <<>>]

\* raw relation dicts; a key the dict does not hold is None (NoConf, {})
RawRel(head, head_type, relation, tail, tail_type, confidence) ==
    [head |-> head, subject |-> None, tail |-> tail, object |-> None,
     type |-> None, relation |-> relation,
     head_type |-> head_type, tail_type |-> tail_type,
     confidence |-> confidence, evidence |-> None, qualifiers |-> {},
     chapter_id |-> None]

\* relations as a template's result file holds them
CompareRelPool ==
    {RawRel(<<"a">>, <<"P">>, <<"R">>, <<"b">>, <<"P">>, 90),
     RawRel(<<"a">>, <<"P">>, <<"S">>, <<"b">>, <<"P">>, 80),
     RawRel(<<"c">>, <<"P">>, <<"R">>, <<"b">>, <<"P">>, 50),
     RawRel(None, None, <<"R">>, <<"b", " ">>, None, NoConf)}

\* the canonicalisation configurations comparison runs under
CompareSyn == <<<<<<"c">>, <<"a">>>>>>
CompareAlias == [strip_tokens |-> <<<<"b">>>>, regex_rules |-> <<>>]

ConfidenceMins == {0, 60}

\* the sequences s rearranged: s[p[1]], s[p[2]], ...
Reorderings(s) ==
    {[i \in DOMAIN s |-> s[p[i]]] :
        p \in {q \in [DOMAIN s -> DOMAIN s] : \A i, j \in DOMAIN s : q[i] = q[j] => i = j}}

\* relation records as normalisation returns them, with the chapter_id that
\* ingestion adds
NormRel(head, relation, tail, confidence, evidence, chapter_id) ==
    [head |-> head, relation |-> relation, tail |-> tail,
     confidence |-> confidence, evidence |-> evidence, qualifiers |-> {},
     chapter_id |-> chapter_id]

\* settings: the "relations" and "fusion" sections
Settings(pats, allowed, prec, group_by, ev_merge, conf_merge, ch_strategy) ==
    [relations |-> [patterns |-> pats, allowed |-> allowed, precedence |-> prec],
     fusion |-> [group_by |-> group_by, evidence_merge |-> ev_merge,
                 confidence_merge |-> conf_merge, chapter_strategy |-> ch_strategy]]

\* the values the code reads for absent settings
DefaultSettings == Settings(<<>>, {}, <<>>, "head_tail", "union", "max", "first")

FusePool ==
    {NormRel(<<"a">>, <<"R">>, <<"b">>, 90, <<"x">>, <<"1">>),
     NormRel(<<"a">>, <<"S">>, <<"b">>, 50, <<"y">>, <<"2">>),
     NormRel(<<"a">>, <<"R">>, <<"b">>, NoConf, None, None),
     NormRel(<<"b">>, <<"R">>, <<"a">>, 90, <<"x">>, <<"1">>),
     NormRel(<<"a">>, <<"T">>, <<"b">>, 95, <<>>, <<"1">>),
     NormRel(<<"a", "|", "b">>, <<"R">>, <<"c">>, 80, <<"y">>, <<"2">>),
     NormRel(<<"a">>, <<"R">>, <<"b", "|", "c">>, 80, <<"x">>, <<"1">>),
     NormRel(<<"a", "|", "b">>, <<"T">>, <<"c">>, 95, None, <<"2">>)}

PrecedenceLists == {<<>>, <<<<"R">>>>, <<<<"S">>, <<"R">>>>}

FuseSettings ==
    {Settings(<<>>, {}, pr, g, e, c, ch) :
        pr \in PrecedenceLists, g \in {"head_tail", "key_format"},
        e \in {"union", "first"}, c \in {"max", "average"}, ch \in {"first", "none"}}

\* a pattern of settings.relations.patterns
Pattern(relation, include, exclude) ==
    [relation |-> relation, include |-> include, exclude |-> exclude]

PatternPool ==
    {Pattern(<<"R">>, <<<<"x">>>>, <<>>),
     Pattern(<<"S">>, <<<<"z">>, <<"y">>>>, <<<<"x", "y">>>>),
     Pattern(<<"T">>, <<>>, <<>>),
     Pattern(None, <<<<"y">>>>, <<>>),
     Pattern(<<"U">>, <<<<>>>>, <<<<"z">>>>)}

CalibPool ==
    {NormRel(<<"a">>, <<"R">>, <<"b">>, 90, <<"x", " ", "y">>, <<"1">>),
     NormRel(<<"a">>, <<"Q">>, <<"b">>, 50, <<"x", "y">>, <<"1">>),
     NormRel(<<"b">>, <<"S">>, <<"a">>, NoConf, None, <<"2">>),
     NormRel(<<"b">>, <<"Q">>, <<"c">>, 80, <<"z">>, None)}

AllowedSets == {{}, {<<"R">>, <<"Q">>}, {<<"S">>, <<"N", "o", "n", "e">>}}

\* raw events; a key the dict does not hold is None
RawEvent(event_type, type, participants, confidence) ==
    [event_type |-> event_type, type |-> type, time |-> None, location |-> None,
     participants |-> participants, evidence |-> None, confidence |-> confidence]

\* the raw relation r with its values under the keys subject, object and type
WithAltKeys(r) ==
    [r EXCEPT !.head = None, !.subject = r.head, !.tail = None, !.object = r.tail,
              !.relation = None, !.type = r.relation,
              !.qualifiers = {<<"k", "v">>}]

\* raw relations as a model returns them: "F" is the alias label
NormRelPool ==
    {RawRel(<<"a">>, None, <<"F">>, <<"a", "b">>, None, 90),
     WithAltKeys(RawRel(<<"a", "b">>, None, <<"F">>, <<" ", "a">>, None, NoConf)),
     RawRel(<<"c">>, None, <<"F">>, <<"a">>, None, 80),
     RawRel(<<"a">>, None, <<"R">>, <<"b">>, None, 70),
     RawRel(<<>>, None, <<"F">>, <<"a">>, None, 90),
     RawRel(<<"I", "t", "e", "m", " ">>, None, <<"R">>, <<"b">>, None, 60)}

\* an event whose participants are a list of {role, entity} pairs
EventWithList ==
    RawEvent(<<"E">>, None,
        PartsList(<<[role |-> <<"x">>, entity |-> <<" ", "a">>],
                    [role |-> None, entity |-> <<"b">>],
                    [role |-> <<"x">>, entity |-> None]>>), 90)

\* an event whose participants are a mapping
EventWithMap ==
    RawEvent(None, <<"E">>, PartsMap([role \in {<<"y">>} |-> <<<<"c">>, <<"a">>>>]), NoConf)

\* the meta a result file holds
MetaDict == [kind |-> "dict", keys |-> {"template_id", "chapter_id"}]

\* the payloads normalisation is given for the relation list l: a bare list,
\* a dict with every section, a dict with the other section names, and a
\* dict whose "relations" is empty beside a filled "relation_with_meta"
NormPayloadsOf(l) ==
    {JList(l),
     RawDict({"relations", "events", "entities", "meta"}, l, <<>>,
             <<EventWithList>>,
             <<>>, <<[name |-> <<" ", "a">>], [name |-> <<"c">>]>>, MetaDict),
     RawDict({"relation_with_meta", "event_plus_relation"}, <<>>, l, <<>>,
             <<EventWithMap>>,
             <<>>, NoData),
     RawDict({"relations", "relation_with_meta"}, <<>>, l, <<>>, <<>>, <<>>, NoData)}

NormPayloads == UNION {NormPayloadsOf(l) : l \in SeqsUpTo(NormRelPool, MaxNormRels)}

NormSyns ==
    {<<>>,
     <<<<<<"a">>, <<"a", "b">>>>>>,
     <<<<<<"a">>, <<"a", "b">>>>, <<<<"c">>, <<" ", "b">>>>>>}

StripRule(text) == AliasRule("strip", text, FALSE, <<>>, <<>>, TRUE)
RegexRule(pat, rep, ok) == AliasRule("regex", <<>>, TRUE, pat, rep, ok)
RegexRuleNoEq(text) == AliasRule("regex", text, FALSE, <<>>, <<>>, TRUE)
OtherRule(text) == AliasRule("other", text, FALSE, <<>>, <<>>, TRUE)

\* alias_rules lists: none; a strip token; a blank strip token and a regex
\* rule; rules that are dropped
AliasRuleLists ==
    {<<>>,
     <<StripRule(<<" ", "b", " ">>)>>,
     <<StripRule(<<" ">>), RegexRule(<<" ", "c">>, <<"a">>, TRUE)>>,
     <<RegexRule(<<"a">>, <<"b">>, FALSE), RegexRuleNoEq(<<"a">>), OtherRule(<<"a">>)>>}

AliasLabelLists == {{}, {<<"F">>}}

\* template ids; T1 is prompts.selected
T1 == <<"t", "1">>
T2 == <<"t", "2">>

TemplateCfg(id, synonyms_map, rules) ==
    [id |-> id, variables |-> [synonyms_map |-> synonyms_map, alias_rules |-> rules]]

\* the settings comparison reads; load_settings always sets llm.model_name
CompareSettings(templates, selected, use_model_suffix, model_name) ==
    [prompts |-> [templates |-> templates, selected |-> selected],
     results |-> [use_model_suffix |-> use_model_suffix],
     llm |-> [model_name |-> model_name]]

CompareSettingsPool ==
    {CompareSettings(<<TemplateCfg(T1, <<<<<<"c">>, <<"a">>>>>>, <<StripRule(<<"x">>)>>),
                       TemplateCfg(T2, <<>>, <<>>)>>,
                     T1, s, <<"q", " ", "x">>) : s \in BOOLEAN}

\* query.model_name: absent, or a name that differs from llm.model_name
\* only in a character the file name replaces
ModelNames == {None, <<"q", "/", "x">>}

CompareQuery(templates, confidence_min, include_events, model_name) ==
    [book |-> Book, chapter_id |-> Chapter1, templates |-> templates,
     confidence_min |-> confidence_min, include_events |-> include_events,
     model_name |-> model_name]

CompareEvent(who, confidence) ==
    RawEvent(<<"E">>, None, PartsMap([role \in {<<"x">>} |-> <<who>>]), confidence)

\* what a result file named without a model suffix can be
PlainFiles ==
    {FileMissing, FileBlank, FileGarbage,
     FileJson(JList(<<>>)),
     FileJson(JDict({"meta"}, <<>>, <<>>)),
     FileJson(JList(<<RawRel(<<"a">>, <<"P">>, <<"R">>, <<"b">>, <<"P">>, 90)>>)),
     FileJson(JDict({"relations", "events", "meta"},
                    <<RawRel(<<"a">>, <<"P">>, <<"S">>, <<"b">>, <<"P">>, 90)>>,
                    <<CompareEvent(<<"a">>, 90)>>)),
     FileJson(JDict({"relations", "events", "meta"},
                    <<RawRel(<<"a">>, <<"P">>, <<"R">>, <<"b">>, <<"P">>, 90),
                      RawRel(<<"c">>, <<"P">>, <<"R">>, <<"b">>, <<"P">>, NoConf),
                      RawRel(<<"a">>, <<"P">>, <<"S">>, <<"b">>, <<"P">>, 50)>>,
                    <<CompareEvent(<<"c">>, 50), CompareEvent(<<"b">>, NoConf)>>))}

\* result files whose JSON is not of the shape the extractor writes: null
\* relations, an entry that is not a mapping, participants given as a list
MalformedFiles ==
    {FileJson(JDictNull({"relations", "meta"}, {"relations"}, <<>>, <<>>)),
     FileJson(JList(<<RawRel(<<"a">>, <<"P">>, <<"R">>, <<"b">>, <<"P">>, 90),
                      NotMapping>>)),
     FileJson(JDict({"events"}, <<>>,
                    <<RawEvent(<<"E">>, None,
                               PartsList(<<[role |-> <<"x">>, entity |-> <<"a">>]>>),
                               90)>>))}

\* what a result file named with a model suffix can be
SuffixedFiles ==
    {FileMissing,
     FileJson(JList(<<RawRel(<<"a">>, <<"P">>, <<"R">>, <<"b">>, <<"P">>, 90),
                      RawRel(<<"a">>, <<"P">>, <<"S">>, <<"b">>, <<"P">>, 90)>>))}

\* every path comparison can probe
ComparePaths ==
    {Path(t, m) : t \in {None, T2}, m \in {None} \cup {Sanitize(n) : n \in ModelNames \ {None}}}

\* the malformed files are drawn for the second template only
FileStores ==
    {fs \in [ComparePaths -> PlainFiles \cup SuffixedFiles \cup MalformedFiles] :
        \A p \in ComparePaths :
            fs[p] \in IF p.model # None THEN SuffixedFiles
                      ELSE IF p.tpl = T2 THEN PlainFiles \cup MalformedFiles
                      ELSE PlainFiles}

(***************************************************************************)
(* Initial values of the variables a specification does not use.           *)
(***************************************************************************)
CanonIdle == name = <<>> /\ once = None /\ twice = None
JaccardIdle == a = {} /\ b = {} /\ jab = <<>> /\ jba = <<>>
ParseIdle == data = NoData /\ cmin = 0 /\ parsed = NoParse /\ reparsed = NoParse
CfgIdle == synonyms = <<>> /\ alias = NoAlias
RelIdle == relations = <<>> /\ settings = DefaultSettings /\ out = <<>>
NormIdle == alias_rules = <<>> /\ alias_relations = {} /\ kg = NoData
CompareIdle == query = NoData /\ files = <<>> /\ report = NoData

(***************************************************************************)
(* Specification SpecCanon: a name is canonicalised, and the result is     *)
(* canonicalised again under the same configuration.                       *)
(***************************************************************************)
InitCanon ==
    /\ pc = "start"
    /\ synonyms \in SynMaps
    /\ alias \in AliasSets
    /\ name \in Names
    /\ once = None
    /\ twice = None
    /\ JaccardIdle
    /\ ParseIdle
    /\ RelIdle
    /\ NormIdle
    /\ CompareIdle

CallCanonicalNorm ==
    /\ pc = "start"
    /\ once' = canonical_norm(name, synonyms, alias)
    /\ pc' = "norm1"
    /\ UNCHANGED <<cfgVars, name, twice, jaccardVars, parseVars, relVars, normVars, compareVars>>

CallCanonicalNormAgain ==
    /\ pc = "norm1"
    /\ twice' = canonical_norm(once, synonyms, alias)
    /\ pc' = "norm2"
    /\ UNCHANGED <<cfgVars, name, once, jaccardVars, parseVars, relVars, normVars, compareVars>>

CallCanonical ==
    /\ pc = "start"
    /\ once' = _canonical(name, synonyms, alias)
    /\ pc' = "canon1"
    /\ UNCHANGED <<cfgVars, name, twice, jaccardVars, parseVars, relVars, normVars, compareVars>>

CallCanonicalAgain ==
    /\ pc = "canon1"
    /\ twice' = _canonical(once, synonyms, alias)
    /\ pc' = "canon2"
    /\ UNCHANGED <<cfgVars, name, once, jaccardVars, parseVars, relVars, normVars, compareVars>>

NextCanon ==
    \/ CallCanonicalNorm
    \/ CallCanonicalNormAgain
    \/ CallCanonical
    \/ CallCanonicalAgain

SpecCanon == InitCanon /\ [][NextCanon]_vars

(***************************************************************************)
(* Specification SpecJaccard: _jaccard is called on two key sets, in both  *)
(* argument orders.                                                        *)
(***************************************************************************)
\* "a", "aa", "aaa", ...
KeyUniverse == {[i \in 1..n |-> "a"] : n \in 1..MaxKeys}

InitJaccard ==
    /\ pc = "start"
    /\ a \in SUBSET KeyUniverse
    /\ b \in SUBSET KeyUniverse
    /\ jab = <<>>
    /\ jba = <<>>
    /\ CfgIdle
    /\ CanonIdle
    /\ ParseIdle
    /\ RelIdle
    /\ NormIdle
    /\ CompareIdle

CallJaccardAB ==
    /\ jab = <<>>
    /\ jab' = _jaccard(a, b)
    /\ pc' = "jaccard"
    /\ UNCHANGED <<a, b, jba, cfgVars, canonVars, parseVars, relVars, normVars, compareVars>>

CallJaccardBA ==
    /\ jba = <<>>
    /\ jba' = _jaccard(b, a)
    /\ pc' = "jaccard"
    /\ UNCHANGED <<a, b, jab, cfgVars, canonVars, parseVars, relVars, normVars, compareVars>>

NextJaccard ==
    \/ CallJaccardAB
    \/ CallJaccardBA

SpecJaccard == InitJaccard /\ [][NextJaccard]_vars

(***************************************************************************)
(* Specification SpecParse: _parse_relations reads a payload, and reads    *)
(* the same payload with its relation list in another order.               *)
(***************************************************************************)
ParsePayloads ==
    {JList(l) : l \in SeqsUpTo(CompareRelPool, MaxRels)}
        \cup {JDict({"relations"}, l, <<>>) : l \in SeqsUpTo(CompareRelPool, MaxRels)}

\* the relation list of a payload
PayloadList(d) == IF d.kind = "list" THEN d.items ELSE d.relations

\* the payload with the relation list l
WithList(d, l) == IF d.kind = "list" THEN JList(l) ELSE JDict(d.keys, l, d.events)

InitParse ==
    /\ pc = "start"
    /\ data \in ParsePayloads
    /\ cmin \in ConfidenceMins
    /\ \/ CfgIdle
       \/ synonyms = CompareSyn /\ alias = CompareAlias
    /\ parsed = NoParse
    /\ reparsed = NoParse
    /\ CanonIdle
    /\ JaccardIdle
    /\ RelIdle
    /\ NormIdle
    /\ CompareIdle

CallParseRelations ==
    /\ pc = "start"
    /\ parsed' = _parse_relations(data, synonyms, alias, cmin)
    /\ pc' = "parsed"
    /\ UNCHANGED <<data, cmin, reparsed, cfgVars, canonVars, jaccardVars, relVars, normVars, compareVars>>

CallParseReordered ==
    /\ pc = "parsed"
    /\ \E l \in Reorderings(PayloadList(data)) :
          /\ data' = WithList(data, l)
          /\ reparsed' = _parse_relations(data', synonyms, alias, cmin)
    /\ pc' = "reparsed"
    /\ UNCHANGED <<cmin, parsed, cfgVars, canonVars, jaccardVars, relVars, normVars, compareVars>>

NextParse ==
    \/ CallParseRelations
    \/ CallParseReordered

SpecParse == InitParse /\ [][NextParse]_vars

(***************************************************************************)
(* Specification SpecCalib: calibrate_relations is called on a list of     *)
(* relations under settings holding patterns and an allowed vocabulary.    *)
(***************************************************************************)
InitCalib ==
    /\ pc = "start"
    /\ relations \in SeqsUpTo(CalibPool, MaxCalib)
    /\ \E ps \in SeqsUpTo(PatternPool, MaxPatterns), al \in AllowedSets :
          settings = Settings(ps, al, <<>>, "head_tail", "union", "max", "first")
    /\ out = <<>>
    /\ CfgIdle
    /\ CanonIdle
    /\ JaccardIdle
    /\ ParseIdle
    /\ NormIdle
    /\ CompareIdle

CallCalibrate ==
    /\ pc = "start"
    /\ out' = calibrate_relations(relations, settings)
    /\ relations' = AfterCalibrate(relations, settings)
    /\ pc' = "calibrated"
    /\ UNCHANGED <<settings, cfgVars, canonVars, jaccardVars, parseVars, normVars, compareVars>>

NextCalib == CallCalibrate

SpecCalib == InitCalib /\ [][NextCalib]_vars

(***************************************************************************)
(* Specification SpecFuse: fuse_relations is called on a list of relations *)
(* under every fusion policy.                                              *)
(***************************************************************************)
InitFuse ==
    /\ pc = "start"
    /\ relations \in SeqsUpTo(FusePool, MaxFuse)
    /\ settings \in FuseSettings
    /\ out = <<>>
    /\ CfgIdle
    /\ CanonIdle
    /\ JaccardIdle
    /\ ParseIdle
    /\ NormIdle
    /\ CompareIdle

CallFuse ==
    /\ pc = "start"
    /\ out' = fuse_relations(relations, settings)
    /\ relations' = AfterFuse(relations, settings)
    /\ pc' = "fused"
    /\ UNCHANGED <<settings, cfgVars, canonVars, jaccardVars, parseVars, normVars, compareVars>>

NextFuse == CallFuse

SpecFuse == InitFuse /\ [][NextFuse]_vars

(***************************************************************************)
(* Specification SpecNorm: a raw model output is normalised, by            *)
(* normalize_relations alone and by normalize_output.                      *)
(***************************************************************************)
InitNorm ==
    /\ pc = "start"
    /\ data \in NormPayloads
    /\ synonyms \in NormSyns
    /\ alias_rules \in AliasRuleLists
    /\ alias_relations \in AliasLabelLists
    /\ alias = NoAlias
    /\ kg = NoData
    /\ cmin = 0
    /\ parsed = NoParse
    /\ reparsed = NoParse
    /\ RelIdle
    /\ CanonIdle
    /\ JaccardIdle
    /\ CompareIdle

CallNormalizeRelations ==
    /\ pc = "start"
    /\ alias' = parse_alias_rules(alias_rules)
    /\ out' = normalize_relations(data, synonyms, alias', alias_relations)
    /\ pc' = "relations"
    /\ UNCHANGED <<synonyms, relations, settings, alias_rules, alias_relations, kg,
                   canonVars, jaccardVars, parseVars, compareVars>>

CallNormalizeOutput ==
    /\ pc = "start"
    /\ alias' = parse_alias_rules(alias_rules)
    /\ kg' = normalize_output(data, T1, synonyms, alias_rules, alias_relations)
    /\ pc' = "output"
    /\ UNCHANGED <<synonyms, relVars, alias_rules, alias_relations,
                   canonVars, jaccardVars, parseVars, compareVars>>

NextNorm ==
    \/ CallNormalizeRelations
    \/ CallNormalizeOutput

SpecNorm == InitNorm /\ [][NextNorm]_vars

(***************************************************************************)
(* Specification SpecCompare: compare_chapter answers a query over the     *)
(* result files of one chapter.                                            *)
(***************************************************************************)
InitCompare ==
    /\ pc = "start"
    /\ \E ts \in SeqsUpTo({T1, T2}, MaxTemplates), c \in ConfidenceMins,
          e \in BOOLEAN, m \in ModelNames :
          query = CompareQuery(ts, c, e, m)
    /\ settings \in CompareSettingsPool
    /\ files \in FileStores
    /\ report = NoData
    /\ relations = <<>>
    /\ out = <<>>
    /\ CfgIdle
    /\ CanonIdle
    /\ JaccardIdle
    /\ ParseIdle
    /\ NormIdle

CallCompareChapter ==
    /\ pc = "start"
    /\ IF CompareRaises(query, settings, files)
       THEN pc' = "raised" /\ report' = report
       ELSE /\ \E smp_rel \in Samples(UnionOf([t \in IdSet(query.templates) |->
                          TemplateResult(t, query, settings, files).rel.keys])),
                  smp_evt \in Samples(UnionOf([t \in IdSet(query.templates) |->
                          TemplateResult(t, query, settings, files).evt.keys])) :
                  report' = compare_chapter(query, settings, files, smp_rel, smp_evt)
            /\ pc' = "compared"
    /\ UNCHANGED <<query, files, cfgVars, canonVars, jaccardVars, parseVars, relVars,
                   normVars>>

NextCompare == CallCompareChapter

SpecCompare == InitCompare /\ [][NextCompare]_vars

(***************************************************************************)
(* Specification SpecBatch: the same results directory is compared for one *)
(* chapter, for a batch of chapters, and for a batch of books.             *)
(***************************************************************************)
BatchTemplates == {<<T1, T2>>, <<T1, T1>>}

\* chapter_ids of a payload
BatchIdLists == {None} \cup SeqsUpTo({Chapter1, Chapter2}, MaxChapters)

\* chapter_range of a payload: absent, "1".."2", not numeric, too short
BatchRanges == {None, <<<<"1">>, <<"2">>>>, <<<<"1">>, <<"x">>>>, <<<<"2">>>>}

BatchStores ==
    {fs \in FileStores :
        /\ fs[Path(None, None)] \in
              {FileMissing, FileBlank,
               FileJson(JDict({"relations", "events", "meta"},
                    <<RawRel(<<"a">>, <<"P">>, <<"R">>, <<"b">>, <<"P">>, 90),
                      RawRel(<<"c">>, <<"P">>, <<"R">>, <<"b">>, <<"P">>, NoConf),
                      RawRel(<<"a">>, <<"P">>, <<"S">>, <<"b">>, <<"P">>, 50)>>,
                    <<CompareEvent(<<"c">>, 50), CompareEvent(<<"b">>, NoConf)>>))}
        /\ fs[Path(T2, None)] \in
              {FileGarbage,
               FileJson(JDict({"relations", "events", "meta"},
                    <<RawRel(<<"a">>, <<"P">>, <<"S">>, <<"b">>, <<"P">>, 90)>>,
                    <<CompareEvent(<<"a">>, 90)>>)),
               FileJson(JDictNull({"relations", "meta"}, {"relations"}, <<>>, <<>>))}
        /\ fs[Path(T2, Sanitize(<<"q", "/", "x">>))] = FileMissing}

InitBatch ==
    /\ pc = "start"
    /\ \E ts \in BatchTemplates, c \in ConfidenceMins, e \in BOOLEAN :
          query = CompareQuery(ts, c, e, None)
    /\ settings \in {st \in CompareSettingsPool : st.results.use_model_suffix}
    /\ files \in BatchStores
    /\ report = NoData
    /\ relations = <<>>
    /\ out = <<>>
    /\ CfgIdle
    /\ CanonIdle
    /\ JaccardIdle
    /\ ParseIdle
    /\ NormIdle

\* the CompareBatchQuery that asks of ids and rng what query asks of a chapter
BatchPayload(q, ids, rng) ==
    [book |-> q.book, chapter_ids |-> ids, chapter_range |-> rng,
     templates |-> q.templates, confidence_min |-> q.confidence_min,
     include_events |-> q.include_events, model_name |-> q.model_name]

BooksPayload(q, books, ids, rng) ==
    [books |-> books, chapter_ids |-> ids, chapter_range |-> rng,
     templates |-> q.templates, confidence_min |-> q.confidence_min,
     include_events |-> q.include_events, model_name |-> q.model_name]

CallCompareBatch ==
    /\ pc = "start"
    /\ \E ids \in BatchIdLists, rng \in BatchRanges :
          IF BatchRaises(BatchPayload(query, ids, rng), settings, files)
          THEN pc' = "raised" /\ report' = report
          ELSE /\ report' \in BatchReports(BatchPayload(query, ids, rng), settings, files)
               /\ pc' = "batched"
    /\ UNCHANGED <<query, files, cfgVars, canonVars, jaccardVars, parseVars, relVars,
                   normVars>>

CallCompareBatchBooks ==
    /\ pc = "start"
    /\ \E books \in SeqsUpTo({Book, OtherBook}, MaxBooks),
          ids \in BatchIdLists, rng \in {<<<<"1">>, <<"2">>>>} :
          IF BatchBooksRaises(BooksPayload(query, books, ids, rng), settings, files)
          THEN pc' = "raised" /\ report' = report
          ELSE /\ \E per \in PerBook(books, BooksPayload(query, books, ids, rng),
                                      settings, files) :
                    report' = compare_batch_books(
                                  BooksPayload(query, books, ids, rng), per)
               /\ pc' = "batched_books"
    /\ UNCHANGED <<query, files, cfgVars, canonVars, jaccardVars, parseVars, relVars,
                   normVars>>

NextBatch ==
    \/ CallCompareChapter
    \/ CallCompareBatch
    \/ CallCompareBatchBooks

SpecBatch == InitBatch /\ [][NextBatch]_vars

(***************************************************************************)
(* Specification SpecFrame: either of calibrate_relations and              *)
(* fuse_relations is called on the relations and settings of SpecCalib.    *)
(***************************************************************************)
NextFrame ==
    \/ CallCalibrate
    \/ CallFuse

SpecFrame == InitCalib /\ [][NextFrame]_vars

(***************************************************************************)
(* Specification SpecIngest: ingest_results reads the results directories  *)
(* and runs its statements; out is the session.                            *)
(***************************************************************************)
IngestMeta(keys, template_id, chapter_id) ==
    [kind |-> "dict", keys |-> keys, template_id |-> template_id,
     chapter_id |-> chapter_id]

\* a raw relation with evidence
Evidenced(r, evidence) == [r EXCEPT !.evidence = evidence]

\* result files: chapter 001 naming its template and chapter in meta, with
\* an alias relation and an event; chapter 002 with no meta; chapter 002
\* repeating a pair of chapter 001 under another label
IngestFiles ==
    {[chapter |-> Chapter1,
      data |-> RawDict({"relations", "events", "meta"},
                  <<Evidenced(RawRel(<<"a">>, None, <<"R">>, <<"b">>, None, 90), <<"y">>),
                    RawRel(<<"c">>, None, <<"F">>, <<"a">>, None, 80)>>,
                  <<>>, <<EventWithMap>>, <<>>, <<>>,
                  IngestMeta({"template_id", "chapter_id"}, T1, Chapter1))],
     [chapter |-> Chapter2,
      data |-> RawDict({"relations"},
                  <<Evidenced(RawRel(<<"b">>, None, <<"S">>, <<" ">>, None, NoConf), <<"x">>)>>,
                  <<>>, <<>>, <<>>, <<>>, NoData)],
     [chapter |-> Chapter2,
      data |-> RawDict({"relations", "meta"},
                  <<RawRel(<<"a">>, None, <<"S">>, <<"b">>, None, 60)>>,
                  <<>>, <<>>, <<>>, <<>>,
                  IngestMeta({"template_id"}, T2, None))]}

\* patterns: one without a label, one relabelling to "S"
IngestPatterns == {Pattern(None, <<<<"y">>>>, <<>>), Pattern(<<"S">>, <<<<"x">>>>, <<>>)}

IngestSettings(pats, allowed, group_by, ch_strategy, mode) ==
    [prompts |-> [templates |-> <<TemplateCfg(T1, <<<<<<"c">>, <<"a">>>>>>, <<>>)>>,
                  selected |-> T1],
     relations |-> [patterns |-> pats, allowed |-> allowed, precedence |-> <<<<"R">>>>,
                    alias_relations |-> {<<"F">>}],
     fusion |-> [group_by |-> group_by, evidence_merge |-> "union",
                 confidence_merge |-> "max", chapter_strategy |-> ch_strategy],
     corpora |-> [mode |-> mode, default |-> Book, include |-> <<Book, OtherBook>>]]

InitIngest ==
    /\ pc = "start"
    /\ \E listing \in SeqsUpTo(IngestFiles, MaxFiles) :
          files = [bk \in {Book, OtherBook} |-> IF bk = Book THEN listing ELSE <<>>]
    /\ \E pats \in SeqsUpTo(IngestPatterns, MaxPatterns),
          allowed \in {{}, {<<"S">>}, {Str(None), <<"R">>}},
          g \in {"head_tail", "key_format"}, ch \in {"first", "none"},
          mode \in {"single", "multi"} :
          settings = IngestSettings(pats, allowed, g, ch, mode)
    /\ query = NoData
    /\ report = NoData
    /\ relations = <<>>
    /\ out = <<>>
    /\ CfgIdle
    /\ CanonIdle
    /\ JaccardIdle
    /\ ParseIdle
    /\ NormIdle

CallIngestResults ==
    /\ pc = "start"
    /\ out' = ingest_results(files, settings)
    /\ pc' = "ingested"
    /\ UNCHANGED <<relations, settings, cfgVars, canonVars, jaccardVars, parseVars,
                   normVars, compareVars>>

NextIngest == CallIngestResults

SpecIngest == InitIngest /\ [][NextIngest]_vars

(***************************************************************************)
(* Claims.                                                                 *)
(***************************************************************************)
AppliedTwice == pc \in {"norm2", "canon2"}

\* the configuration does not overlap with the output y: no regex rule
\* changes y, y is no synonym key, and no strip token starts or ends y
Settled(y, syn, al) ==
    /\ \A i \in DOMAIN al.regex_rules :
          ReSub(al.regex_rules[i].pat, al.regex_rules[i].rep, y) = y
    /\ ~SynHas(syn, y)
    /\ \A i \in DOMAIN al.strip_tokens :
          /\ ~StartsWith(y, al.strip_tokens[i])
          /\ ~EndsWith(y, al.strip_tokens[i])

\* C1 as stated: for every name and every configuration, canonicalising the
\* canonical form again returns it unchanged (canonical_norm and _canonical).
C1_IdempotentAlways == AppliedTwice => twice = once

\* C1 amended: canonicalisation is idempotent when the configuration does not
\* overlap with its own output: if no regex rule changes the canonical form,
\* the canonical form is no synonym key and no strip token starts or ends it,
\* then canonicalising it again returns it unchanged.
C1_IdempotentWhenSettled ==
    (AppliedTwice /\ Settled(once, synonyms, alias)) => twice = once

\* C1 witness: under a configuration with a regex rule, a synonym and a strip
\* token, a name has been rewritten to a non-empty settled canonical form and
\* that form has been canonicalised again
C1_Witness ==
    /\ AppliedTwice
    /\ Settled(once, synonyms, alias)
    /\ once # name
    /\ once # <<>>
    /\ alias.regex_rules # <<>>
    /\ alias.strip_tokens # <<>>
    /\ synonyms # <<>>

\* a quotient between 0.0 and 1.0
InUnitInterval(q) == q[2] > 0 /\ 0 <= q[1] /\ q[1] <= q[2]

\* C2: _jaccard of two empty sets is 1.0; of a non-empty set with itself it is
\* 1.0; it is the same for both argument orders; it always lies in [0, 1].
C2_Jaccard ==
    /\ jab # <<>> =>
          /\ (a = {} /\ b = {}) => jab = <<1, 1>>
          /\ (a = b /\ a # {}) => SameFloat(jab, <<1, 1>>)
          /\ InUnitInterval(jab)
    /\ jba # <<>> => InUnitInterval(jba)
    /\ (jab # <<>> /\ jba # <<>>) => SameFloat(jab, jba)

\* C2 witness: both orders have been computed for two different overlapping
\* sets, neither inside the other
C2_Witness ==
    /\ jab # <<>>
    /\ jba # <<>>
    /\ a \cap b # {}
    /\ a \ b # {}
    /\ b \ a # {}

\* C3: the set of relation keys _parse_relations builds is the same for every
\* order of the payload's relation list.
C3_KeysOrderInvariant == pc = "reparsed" => reparsed.keys = parsed.keys

\* C3 witness: a payload was read in two different orders, a record was dropped
\* for its confidence and two different keys were built
C3_Witness ==
    /\ pc = "reparsed"
    /\ reparsed.items # parsed.items
    /\ Len(parsed.items) < Len(PayloadList(data))
    /\ Cardinality(parsed.keys) >= 2

\* the distinct grouping keys of the input
InputKeys == {GroupKey(relations[i], settings.fusion) : i \in DOMAIN relations}

\* C4: fuse_relations returns one record per fusion group: never more records
\* than distinct grouping keys in the input, and at least one when the input
\* is not empty.
C4_OnePerGroup ==
    pc = "fused" =>
        /\ Len(out) <= Cardinality(InputKeys)
        /\ relations # <<>> => Len(out) >= 1
        /\ \A k \in InputKeys :
              Cardinality({i \in DOMAIN out : GroupKey(out[i], settings.fusion) = k}) = 1

\* C4 witness: three records falling into two groups were fused into two
C4_Witness ==
    /\ pc = "fused"
    /\ Len(relations) = 3
    /\ Cardinality(InputKeys) = 2
    /\ Len(out) = 2

\* C5: under the "max" policy the confidence of every fused record is at least
\* the confidence of every input record of its group, a missing confidence
\* counting as 0.0.
C5_MaxConfidence ==
    (pc = "fused" /\ settings.fusion.confidence_merge = "max") =>
        \A i \in DOMAIN out : \A j \in DOMAIN relations :
            GroupKey(relations[j], settings.fusion) = GroupKey(out[i], settings.fusion)
                => /\ out[i].confidence[2] = 1
                   /\ out[i].confidence[1] >= ConfOrZero(relations[j].confidence)

\* C5 witness: a group whose winner is not its most confident record, and
\* which holds a record without confidence, was fused under "max"
C5_Witness ==
    /\ pc = "fused"
    /\ settings.fusion.confidence_merge = "max"
    /\ \E i \in DOMAIN out : \E j, k \in DOMAIN relations :
          /\ GroupKey(relations[j], settings.fusion) = GroupKey(out[i], settings.fusion)
          /\ GroupKey(relations[k], settings.fusion) = GroupKey(out[i], settings.fusion)
          /\ relations[j].confidence = NoConf
          /\ relations[k].relation # out[i].relation
          /\ relations[k].confidence = out[i].confidence[1]

\* the patterns r's evidence matches, in configured order
MatchingPatterns(r) ==
    SelectSeq(settings.relations.patterns,
              LAMBDA p : /\ \E i \in DOMAIN p.include :
                              Contains(StrOrEmpty(r.evidence), p.include[i])
                         /\ \A i \in DOMAIN p.exclude :
                              ~Contains(StrOrEmpty(r.evidence), p.exclude[i]))

\* one copy of r per matching pattern, labelled with the pattern's target
CopiesOf(r) ==
    [j \in DOMAIN MatchingPatterns(r) |->
        [r EXCEPT !.relation = MatchingPatterns(r)[j].relation]]

RECURSIVE AllCopies(_)
AllCopies(rs) == IF rs = <<>> THEN <<>> ELSE CopiesOf(Head(rs)) \o AllCopies(Tail(rs))

\* C6: with an empty allowed vocabulary, a relation whose evidence matches
\* k >= 1 patterns yields exactly k records, one copy per matching pattern in
\* configured order, relabelled with that pattern's target, and the record
\* with its original label is not emitted.
C6_FanOut ==
    (/\ pc = "calibrated"
     /\ settings.relations.allowed = {}
     /\ \A i \in DOMAIN relations : Len(MatchingPatterns(relations[i])) >= 1)
        => out = AllCopies(relations)

\* C6 witness: a relation matching two patterns with different targets,
\* neither its own label, was calibrated into exactly two records
C6_Witness ==
    /\ pc = "calibrated"
    /\ settings.relations.allowed = {}
    /\ Len(relations) = 1
    /\ Len(MatchingPatterns(relations[1])) = 2
    /\ Len(settings.relations.patterns) = 2
    /\ Len(out) = 2
    /\ out[1].relation # out[2].relation
    /\ \A i \in DOMAIN out : out[i].relation # relations[1].relation

\* the template ids the query names
Requested == IdSet(query.templates)

\* the relation list of the payload compare_chapter reads for template t
LoadedRelations(t) ==
    PayloadList(OrEmptyDict(
        LoadData(_candidate_paths(settings.prompts.selected, t, settings, query.model_name),
                 files, NoData)))

\* the records of template t that the confidence threshold keeps
Retained(t) ==
    SelectSeq(LoadedRelations(t), LAMBDA r : ~BelowMin(r.confidence, query.confidence_min))

RelKeySet(t) == TemplateResult(t, query, settings, files).rel.keys
EvtKeySet(t) == TemplateResult(t, query, settings, files).evt.keys

RelUnion == UNION {RelKeySet(t) : t \in Requested}
RelIntersection == {k \in RelUnion : \A t \in Requested : k \in RelKeySet(t)}

\* templates t and u each hold one retained relation
OneRelationEach(t, u) ==
    /\ t # u
    /\ Len(LoadedRelations(t)) = 1 /\ Len(Retained(t)) = 1
    /\ Len(LoadedRelations(u)) = 1 /\ Len(Retained(u)) = 1

\* the part of C7 that holds for every query: per-template counts, the union
\* count, and the figures of the two-template example
CountsAndUnion ==
    /\ \A t \in Requested :
          report.metrics.relations_count_by_template[t] = Len(Retained(t))
    /\ report.metrics.relations_union_count = Cardinality(RelUnion)
    /\ (/\ Len(query.templates) = 2
        /\ OneRelationEach(query.templates[1], query.templates[2])
        /\ LoadedRelations(query.templates[1])[1].relation
              # LoadedRelations(query.templates[2])[1].relation
        /\ [LoadedRelations(query.templates[1])[1] EXCEPT !.relation = <<>>]
              = [LoadedRelations(query.templates[2])[1] EXCEPT !.relation = <<>>])
       => /\ \A t \in Requested : report.metrics.relations_count_by_template[t] = 1
          /\ report.metrics.relations_union_count = 2
          /\ report.metrics.relations_intersection_count = 0
          /\ SameFloat(report.metrics.relations_jaccard, <<0, 1>>)

\* C7 as stated: for any list of requested templates, compare_chapter reports
\* the number of retained relation records per template, the size of the set
\* union of the key sets, and the size of their set intersection.
C7_CountsAsStated ==
    pc = "compared" =>
        /\ CountsAndUnion
        /\ report.metrics.relations_intersection_count = Cardinality(RelIntersection)

\* C7 amended: counts and union as stated; relations_intersection_count is
\* the size of the set intersection when the list names at least two distinct
\* templates, and 0 when it names fewer than two distinct templates.
C7_CountsDistinctTemplates ==
    pc = "compared" =>
        /\ CountsAndUnion
        /\ report.metrics.relations_intersection_count =
              IF Cardinality(Requested) >= 2 THEN Cardinality(RelIntersection) ELSE 0

\* C7 witness: three template ids naming two templates were compared; a
\* template holds more retained records than keys, a record was dropped for
\* its confidence, and the key sets overlap without being equal
C7_Witness ==
    /\ pc = "compared"
    /\ Len(query.templates) = 3
    /\ Cardinality(Requested) = 2
    /\ \E t \in Requested : Len(Retained(t)) > Cardinality(RelKeySet(t))
    /\ \E t \in Requested : Len(Retained(t)) < Len(LoadedRelations(t))
    /\ report.metrics.relations_intersection_count >= 1
    /\ report.metrics.relations_union_count > report.metrics.relations_intersection_count

\* |x /\ y| / |x \/ y| as a quotient
Ratio(x, y) == <<Cardinality(x \cap y), Cardinality(x \cup y)>>

\* C8: for a request with exactly two templates, relations_jaccard and
\* events_jaccard are |A /\ B| / |A \/ B| of the two templates' key sets; two
\* templates holding the same relation with identical fields give union 1,
\* intersection 1 and jaccard 1.0.
C8_PairJaccard ==
    (pc = "compared" /\ Len(query.templates) = 2) =>
        LET t == query.templates[1]
            u == query.templates[2]
        IN  /\ RelKeySet(t) \cup RelKeySet(u) # {} =>
                  SameFloat(report.metrics.relations_jaccard,
                            Ratio(RelKeySet(t), RelKeySet(u)))
            /\ EvtKeySet(t) \cup EvtKeySet(u) # {} =>
                  SameFloat(report.metrics.events_jaccard,
                            Ratio(EvtKeySet(t), EvtKeySet(u)))
            /\ (OneRelationEach(t, u) /\ LoadedRelations(t) = LoadedRelations(u))
                  => /\ report.metrics.relations_union_count = 1
                     /\ report.metrics.relations_intersection_count = 1
                     /\ SameFloat(report.metrics.relations_jaccard, <<1, 1>>)

\* C8 witness: two different templates were compared with events included;
\* their relation key sets overlap without being equal, and so do their
\* event key sets
C8_Witness ==
    /\ pc = "compared"
    /\ Len(query.templates) = 2
    /\ query.include_events
    /\ LET t == query.templates[1]
           u == query.templates[2]
       IN  /\ t # u
           /\ RelKeySet(t) \cap RelKeySet(u) # {}
           /\ RelKeySet(t) # RelKeySet(u)
           /\ EvtKeySet(t) \cap EvtKeySet(u) # {}
           /\ EvtKeySet(t) # EvtKeySet(u)

\* the raw relations normalize_relations reads from the payload
RawRelations == _relations_from_obj(data)

\* a raw relation with head, tail and label whose label is an alias label
AliasLabelled(r) ==
    /\ FirstOf(r.head, r.subject) # <<>>
    /\ FirstOf(r.tail, r.object) # <<>>
    /\ FirstOf(r.type, r.relation) \in alias_relations

\* which endpoint of r is a synonym-table key, the tail looked at first
KeyedSide(r) ==
    IF SynHas(synonyms, canonical_original(FirstOf(r.tail, r.object), alias)) THEN "tail"
    ELSE IF SynHas(synonyms, canonical_original(FirstOf(r.head, r.subject), alias)) THEN "head"
    ELSE "neither"

AliasSide(r) ==
    IF KeyedSide(r) = "head"
    THEN canonical_original(FirstOf(r.head, r.subject), alias)
    ELSE canonical_original(FirstOf(r.tail, r.object), alias)

CanonicalSide(r) ==
    IF KeyedSide(r) = "neither"
    THEN canonical_original(FirstOf(r.head, r.subject), alias)
    ELSE SynGet(synonyms, AliasSide(r))

\* C9: every raw relation (with head, tail and label) whose label is in
\* alias_relations yields exactly one record with relation ALIAS: its head is
\* the alias side (the tail after canonical_original if that is a synonym key,
\* otherwise the head if that is a key, otherwise the tail with the head as
\* canonical side) and its tail is the full canonicalisation of the canonical
\* side.
C9_AliasDetection ==
    pc = "relations" =>
        LET raws == SelectSeq(RawRelations, AliasLabelled)
            outs == SelectSeq(out, LAMBDA x : x.relation = ALIAS)
        IN  /\ Len(outs) = Len(raws)
            /\ \A i \in DOMAIN raws :
                  /\ outs[i].head = AliasSide(raws[i])
                  /\ outs[i].tail = canonical_norm(CanonicalSide(raws[i]), synonyms, alias)

\* C9 witness: a payload with two alias-labelled relations was normalised,
\* one keyed on its head and one on its tail although its head is a key too,
\* and an emitted tail differs from the canonical side it was computed from
C9_Witness ==
    /\ pc = "relations"
    /\ LET raws == SelectSeq(RawRelations, AliasLabelled)
           outs == SelectSeq(out, LAMBDA x : x.relation = ALIAS)
       IN  /\ Len(outs) = 2
           /\ \E i \in DOMAIN raws : KeyedSide(raws[i]) = "head"
           /\ \E i \in DOMAIN raws :
                 /\ KeyedSide(raws[i]) = "tail"
                 /\ SynHas(synonyms, canonical_original(
                        FirstOf(raws[i].head, raws[i].subject), alias))
           /\ \E i \in DOMAIN raws : outs[i].tail # CanonicalSide(raws[i])

\* C10 as stated: normalize_output appends, after all records derived from raw
\* relations, exactly one synthetic ALIAS record per synonym-table entry, with
\* head the raw key, tail the canonicalised canonical target, confidence 0.99
\* and qualifiers {alias_source: synonyms_map}.
C10_SyntheticAlias ==
    pc = "output" =>
        LET derived == normalize_relations(data, synonyms, alias, alias_relations)
        IN  /\ Len(kg.relations) = Len(derived) + Len(synonyms)
            /\ SubSeq(kg.relations, 1, Len(derived)) = derived
            /\ \A i \in DOMAIN synonyms :
                  LET x == kg.relations[Len(derived) + i]
                  IN  /\ x.head = synonyms[i][1]
                      /\ x.relation = ALIAS
                      /\ x.tail = canonical_norm(synonyms[i][2], synonyms, alias)
                      /\ x.confidence = 99
                      /\ x.qualifiers = {<<"alias_source", "synonyms_map">>}

\* a raw relation with head, tail and label whose label is no alias label
PlainLabelled(r) ==
    /\ FirstOf(r.head, r.subject) # <<>>
    /\ FirstOf(r.tail, r.object) # <<>>
    /\ FirstOf(r.type, r.relation) # <<>>
    /\ FirstOf(r.type, r.relation) \notin alias_relations

\* a fully canonicalised endpoint of r is a reserved entity-type token
HasTypeToken(r) ==
    \/ canonical_norm(FirstOf(r.head, r.subject), synonyms, alias) \in TYPE_ENUM
    \/ canonical_norm(FirstOf(r.tail, r.object), synonyms, alias) \in TYPE_ENUM

\* C11: a raw relation whose label is no alias label is discarded whenever its
\* fully canonicalised head or tail is one of Person, Location, Item, Spell,
\* Organization, Deity; no emitted non-ALIAS record has such a token as head
\* or tail.
C11_TypeTokensDropped ==
    pc = "relations" =>
        /\ \A i \in DOMAIN out :
              out[i].relation # ALIAS =>
                  out[i].head \notin TYPE_ENUM /\ out[i].tail \notin TYPE_ENUM
        /\ Len(SelectSeq(out, LAMBDA x : x.relation # ALIAS))
              = Len(SelectSeq(RawRelations,
                              LAMBDA r : PlainLabelled(r) /\ ~HasTypeToken(r)))

\* C11 witness: of two raw relations with a plain label one was emitted and
\* one, whose head is a token only after canonicalisation, was discarded
C11_Witness ==
    /\ pc = "relations"
    /\ Len(SelectSeq(RawRelations, PlainLabelled)) = 2
    /\ Len(out) = 1
    /\ out[1].relation # ALIAS
    /\ \E i \in DOMAIN RawRelations :
          /\ HasTypeToken(RawRelations[i])
          /\ FirstOf(RawRelations[i].head, RawRelations[i].subject) \notin TYPE_ENUM

\* what the fan-out holds for the relations rs: the record itself when no
\* pattern matches its evidence, its relabelled copies otherwise
RECURSIVE AfterFanOut(_)
AfterFanOut(rs) ==
    IF rs = <<>> THEN <<>>
    ELSE (IF MatchingPatterns(Head(rs)) = <<>> THEN <<Head(rs)>> ELSE CopiesOf(Head(rs)))
            \o AfterFanOut(Tail(rs))

\* C12: a relation whose evidence matches no configured pattern produces
\* exactly one output record, equal to the original record with its label
\* unchanged (before the vocabulary filter: checked under an empty vocabulary,
\* where the list returned is the fan-out).
C12_PassThrough ==
    (pc = "calibrated" /\ settings.relations.allowed = {}) =>
        /\ out = AfterFanOut(relations)
        /\ (\A i \in DOMAIN relations : MatchingPatterns(relations[i]) = <<>>)
              => out = relations

\* C12 witness: under two configured patterns, an unmatched relation with
\* evidence passed through as the second of two input relations, after the
\* copy of a matched one
C12_Witness ==
    /\ pc = "calibrated"
    /\ settings.relations.allowed = {}
    /\ Len(settings.relations.patterns) = 2
    /\ Len(relations) = 2
    /\ MatchingPatterns(relations[1]) # <<>>
    /\ MatchingPatterns(relations[2]) = <<>>
    /\ relations[2].evidence # None
    /\ Len(out) = 2
    /\ out[2] = relations[2]
    /\ out[1] # relations[1]

\* C13: with a non-empty allowed vocabulary calibrate_relations returns
\* exactly the fan-out records whose label (as a string) is in the vocabulary,
\* in order, dropping every other record, unmatched originals included; with
\* an empty vocabulary it returns the whole fan-out.
C13_VocabularyFilter ==
    pc = "calibrated" =>
        /\ settings.relations.allowed # {} =>
              /\ out = SelectSeq(AfterFanOut(relations),
                                 LAMBDA x : Str(x.relation) \in settings.relations.allowed)
              /\ \A i \in DOMAIN out : Str(out[i].relation) \in settings.relations.allowed
        /\ settings.relations.allowed = {} => out = AfterFanOut(relations)

\* C13 witness: under a non-empty vocabulary an unmatched original and a
\* relabelled copy were dropped and a record was kept
C13_Witness ==
    /\ pc = "calibrated"
    /\ settings.relations.allowed # {}
    /\ out # <<>>
    /\ \E i \in DOMAIN relations :
          /\ MatchingPatterns(relations[i]) = <<>>
          /\ Str(relations[i].relation) \notin settings.relations.allowed
    /\ \E i \in DOMAIN relations :
          /\ MatchingPatterns(relations[i]) # <<>>
          /\ \E j \in DOMAIN CopiesOf(relations[i]) :
                Str(CopiesOf(relations[i])[j].relation) \notin settings.relations.allowed

\* the input records of the fusion group the fused record x stands for
GroupOf(x) ==
    SelectSeq(relations,
              LAMBDA r : GroupKey(r, settings.fusion) = GroupKey(x, settings.fusion))

\* the label of r is on the precedence list
Listed(r) ==
    \E i \in DOMAIN settings.relations.precedence :
        settings.relations.precedence[i] = r.relation

\* the place of r's label on the precedence list, counted from 0; the length
\* of the list, above every listed place, when it is not listed
PrecedenceRank(r) ==
    IF Listed(r)
    THEN Cardinality({i \in DOMAIN settings.relations.precedence :
             \A j \in 1..i : settings.relations.precedence[j] # r.relation})
    ELSE Len(settings.relations.precedence)

\* x comes strictly before y under (precedence rank, then higher confidence)
Before(x, y) ==
    \/ PrecedenceRank(x) < PrecedenceRank(y)
    \/ /\ PrecedenceRank(x) = PrecedenceRank(y)
       /\ ConfOrZero(x.confidence) > ConfOrZero(y.confidence)

\* C14: in each fusion group the record supplying head, tail and relation of
\* the fused record is minimal under (precedence rank of its label, unlisted
\* labels ranking above every listed one; then higher confidence first), ties
\* going to the record met first in the input; a record with an unlisted label
\* never wins over one with a listed label of the same group.
C14_Winner ==
    pc = "fused" =>
        \A k \in DOMAIN out :
            LET items == GroupOf(out[k])
            IN  /\ \E i \in DOMAIN items :
                      /\ \A j \in DOMAIN items : ~Before(items[j], items[i])
                      /\ \A j \in 1..(i - 1) : Before(items[i], items[j])
                      /\ out[k].head = items[i].head
                      /\ out[k].tail = items[i].tail
                      /\ out[k].relation = items[i].relation
                /\ (\E j \in DOMAIN items : Listed(items[j])) => Listed(out[k])

\* C14 witness: in a group of three, two records with a listed label tied on
\* rank and confidence and the one met first supplied the head, although a
\* record with an unlisted label is more confident than both
C14_Witness ==
    /\ pc = "fused"
    /\ \E k \in DOMAIN out :
          LET items == GroupOf(out[k])
          IN  /\ Len(items) = 3
              /\ Listed(out[k])
              /\ \E i, j, u \in DOMAIN items :
                    /\ i < j
                    /\ items[i].head # items[j].head
                    /\ ~Before(items[i], items[j])
                    /\ ~Before(items[j], items[i])
                    /\ out[k].head = items[i].head
                    /\ ~Listed(items[u])
                    /\ ConfOrZero(items[u].confidence) > ConfOrZero(items[i].confidence)

\* the distinct non-empty evidence strings of the group of x
NonEmptyEvidence(x) ==
    {GroupOf(x)[i].evidence : i \in {j \in DOMAIN GroupOf(x) :
        GroupOf(x)[j].evidence # None /\ GroupOf(x)[j].evidence # <<>>}}

\* C15 as stated: under the union policy the evidence of a fused record is
\* the sorted list of the distinct non-empty evidence strings of its group
\* joined with " | "; empty or absent evidence contributes nothing.
C15_EvidenceUnion ==
    (pc = "fused" /\ settings.fusion.evidence_merge = "union") =>
        \A k \in DOMAIN out :
            out[k].evidence = Join(<<" ", "|", " ">>, Sorted(NonEmptyEvidence(out[k])))

\* the chapter ids present in the group of x
ChapterIds(x) ==
    {GroupOf(x)[i].chapter_id : i \in {j \in DOMAIN GroupOf(x) :
        GroupOf(x)[j].chapter_id # None /\ GroupOf(x)[j].chapter_id # <<>>}}

\* C16 as stated: qualifiers.chapters of every fused record holds each chapter
\* id present in its group exactly once, however many group members share a
\* chapter id.
C16_DistinctChapters ==
    pc = "fused" =>
        \A k \in DOMAIN out :
            \A c \in ChapterIds(out[k]) :
                Cardinality({i \in DOMAIN out[k].qualifiers.chapters :
                                out[k].qualifiers.chapters[i] = c}) = 1

(***************************************************************************)
(* C18.  The files of a comparison are all missing, blank, unparsable or   *)
(* JSON: every payload read is JSON-parsable, a null in the place of a     *)
(* list, an entry that is not a mapping and a list-shaped participants     *)
(* value included.                                                         *)
(***************************************************************************)
\* C18 as stated: whatever the result files hold, compare_chapter returns
\* and never raises
C18_NeverRaises == pc # "raised"

(***************************************************************************)
(* C17.  A template has no usable result file for a chapter when every     *)
(* candidate path of it is missing, blank or not JSON.  The results        *)
(* directory holds files for chapter 001 of one book only, so every other  *)
(* chapter and every other book is such a chapter for every template.      *)
(***************************************************************************)
\* the paths compare_chapter probes for template t
Candidates(t) ==
    _candidate_paths(settings.prompts.selected, t, settings, query.model_name)

\* template t has no usable result file for chapter cid of book bk
NoUsableFile(t, bk, cid) ==
    \A i \in DOMAIN Candidates(t) :
        FilesOf(files, bk, cid)[Candidates(t)[i]] \in {FileMissing, FileBlank, FileGarbage}

\* the events of template t that the confidence threshold keeps
RetainedEvents(t) ==
    LET d == OrEmptyDict(LoadData(Candidates(t), files, NoData))
    IN  SelectSeq(IF d.kind = "dict" /\ "events" \in d.keys THEN d.events ELSE <<>>,
                  LAMBDA e : ~BelowMin(e.confidence, query.confidence_min))

\* what chapter cid of book bk adds to the relation sum of template t
RelationsAdded(t, bk, cid) ==
    IF NoUsableFile(t, bk, cid) THEN 0 ELSE Len(Retained(t))

\* what chapter cid of book bk adds to the event sum of template t
EventsAdded(t, bk, cid) ==
    IF NoUsableFile(t, bk, cid) \/ ~query.include_events THEN 0
    ELSE Len(RetainedEvents(t))

\* the figures of a chapter report for a template without a usable file
ZeroFor(t, metrics, diffs) ==
    /\ metrics.relations_count_by_template[t] = 0
    /\ metrics.events_count_by_template[t] = 0
    /\ diffs.relations_unique[t] = {}
    /\ diffs.events_unique[t] = {}
    /\ \A ty \in DOMAIN metrics.by_relation_type : metrics.by_relation_type[ty][t] = 0

\* the summary of a batch report over book bk is the sum of what its
\* chapters add
SummaryAddsUp(r, bk) ==
    \A t \in Requested :
        /\ r.summary.relations_count_by_template[t] =
              SumSeq([i \in DOMAIN r.per_chapter |->
                        RelationsAdded(t, bk, r.per_chapter[i].chapter_id)])
        /\ r.summary.events_count_by_template[t] =
              SumSeq([i \in DOMAIN r.per_chapter |->
                        EventsAdded(t, bk, r.per_chapter[i].chapter_id)])

\* every chapter of a batch report over book bk shows zeros for a template
\* without a usable file
ChaptersZero(r, bk) ==
    \A i \in DOMAIN r.per_chapter : \A t \in Requested :
        NoUsableFile(t, bk, r.per_chapter[i].chapter_id) =>
            ZeroFor(t, r.per_chapter[i].metrics, r.per_chapter[i].diffs)

RelationStatements == SelectSeq(out, LAMBDA x : x.kind = "relation")

\* C19 as stated: every relation statement ingest_results runs has a head, a
\* tail, a relation type, a book and a chapter that are not null
C19_KeyResolved ==
    pc = "ingested" =>
        \A i \in DOMAIN RelationStatements :
            /\ RelationStatements[i].h # None
            /\ RelationStatements[i].t # None
            /\ RelationStatements[i].rt # None
            /\ RelationStatements[i].cid # None

(***************************************************************************)
(* C20.  relations and settings are the arguments before a call and, in    *)
(* the next state, the same objects after it.                              *)
(***************************************************************************)
\* C20: a call of calibrate_relations or of fuse_relations leaves the list
\* passed in, every record in it and the settings as they were
C20_InputsUnchanged ==
    [][(pc' = "calibrated" \/ pc' = "fused") =>
          /\ relations' = relations
          /\ settings' = settings]_vars

\* calibration that relabelled a record and kept another, its result being
\* what the references of the call denote
C20_Witness ==
    /\ pc = "calibrated"
    /\ Len(relations) = 2
    /\ out = CalibratedObjects(relations, settings)
    /\ \E i \in DOMAIN out : out[i] = relations[2]
    /\ \E i \in DOMAIN out :
          /\ out[i].relation # relations[1].relation
          /\ [out[i] EXCEPT !.relation = relations[1].relation] = relations[1]
    /\ \A i \in DOMAIN out : out[i] # relations[1]

(***************************************************************************)
(* C21.  kg is the value normalize_output returned.                        *)
(***************************************************************************)
\* the names of the entities of kg
EntityNames == {kg.entities[i].name : i \in DOMAIN kg.entities}

\* C21 as stated: the entities of normalize_output hold no name twice, and
\* every head and every tail of every relation returned, the ALIAS records
\* included, is the name of an entity
C21_EntitiesCoverRelations ==
    pc = "output" =>
        /\ \A i, j \in DOMAIN kg.entities :
              kg.entities[i].name = kg.entities[j].name => i = j
        /\ \A i \in DOMAIN kg.relations :
              /\ kg.relations[i].head \in EntityNames
              /\ kg.relations[i].tail \in EntityNames

(***************************************************************************)
(* C22.  A candidate path exists when its file is not missing.             *)
(***************************************************************************)
\* the candidate paths of template t that exist, in the order probed
Existing(t) == SelectSeq(Candidates(t), LAMBDA p : files[p] # FileMissing)

\* what the first existing candidate of template t holds
FirstExistingData(t) ==
    IF Existing(t) = <<>> THEN NoData ELSE _read_result(files[Existing(t)[1]])

\* C22 as stated: the relations compare_chapter counts and keys for a
\* template are those of its first candidate file that exists, whatever
\* that file holds
C22_FirstExistingWins ==
    pc = "compared" =>
        \A t \in Requested :
            LET used == _parse_relations(OrEmptyList(FirstExistingData(t)),
                            _merge_synonyms(settings, query.templates),
                            _collect_alias_rules(settings, query.templates),
                            query.confidence_min)
            IN  /\ report.metrics.relations_count_by_template[t] = Len(used.items)
                /\ RelKeySet(t) = used.keys

(***************************************************************************)
(* C23.  Conventions for requests that do not name two templates.          *)
(***************************************************************************)
\* C23: a request naming one template reports an empty intersection of
\* relations and of events, and a request naming any number of templates
\* other than two reports both similarities as 0.0
C23_Conventions ==
    pc = "compared" =>
        /\ Len(query.templates) = 1 =>
              /\ report.metrics.relations_intersection_count = 0
              /\ report.diffs.relations_intersection = {}
              /\ report.metrics.events_intersection_count = 0
              /\ report.diffs.events_intersection = {}
        /\ Len(query.templates) # 2 =>
              /\ SameFloat(report.metrics.relations_jaccard, <<0, 1>>)
              /\ SameFloat(report.metrics.events_jaccard, <<0, 1>>)

\* three templates named, the first two sharing a relation key and an
\* event key, with both similarities reported as 0.0
C23_Witness ==
    /\ pc = "compared"
    /\ Len(query.templates) = 3
    /\ RelKeySet(query.templates[1]) \cap RelKeySet(query.templates[2]) # {}
    /\ EvtKeySet(query.templates[1]) \cap EvtKeySet(query.templates[2]) # {}
    /\ report.metrics.relations_jaccard = <<0, 1>>
    /\ report.metrics.events_jaccard = <<0, 1>>

(***************************************************************************)
(* C24.  The table by_relation_type, against the records the threshold     *)
(* keeps of each requested template.                                       *)
(***************************************************************************)
\* the retained records of template t that have relation type ty
TypeCount(t, ty) == Len(SelectSeq(Retained(t), LAMBDA r : GetStr(r.relation) = ty))


\* C24: by_relation_type has an entry for every relation type of a retained
\* record of a requested template and for no other; the entry gives every
\* template its count of retained records of the type, 0 when it has none,
\* "union" the sum and "intersection" the minimum of the counts of the
\* templates as listed in the request
C24_ByRelationType ==
    pc = "compared" =>
        /\ DOMAIN report.metrics.by_relation_type =
              UNION {{GetStr(Retained(t)[i].relation) : i \in DOMAIN Retained(t)} :
                        t \in Requested}
        /\ \A ty \in DOMAIN report.metrics.by_relation_type :
              LET entry == report.metrics.by_relation_type[ty]
                  listed == [i \in DOMAIN query.templates |-> TypeCount(query.templates[i], ty)]
              IN  /\ \A t \in Requested : entry[t] = TypeCount(t, ty)
                  /\ entry[UnionField] = SumSeq(listed)
                  /\ entry[IntersectionField] = MinOf(listed)

\* two templates: a type held twice by one and once by the other, and a
\* type the second template does not hold
C24_Witness ==
    /\ pc = "compared"
    /\ query.templates = <<T1, T2>>
    /\ \E ty \in DOMAIN report.metrics.by_relation_type :
          /\ report.metrics.by_relation_type[ty][T1] = 2
          /\ report.metrics.by_relation_type[ty][T2] = 1
          /\ report.metrics.by_relation_type[ty][UnionField] = 3
          /\ report.metrics.by_relation_type[ty][IntersectionField] = 1
    /\ \E ty \in DOMAIN report.metrics.by_relation_type :
          /\ report.metrics.by_relation_type[ty][T1] = 1
          /\ report.metrics.by_relation_type[ty][T2] = 0
          /\ report.metrics.by_relation_type[ty][IntersectionField] = 0

(***************************************************************************)
(* C25.  The groups of the "head_tail" policy against the (head, tail)     *)
(* pairs of the input.                                                     *)
(***************************************************************************)
\* the (head, tail) pairs of the input records
EndpointPairs == {<<relations[i].head, relations[i].tail>> : i \in DOMAIN relations}

\* C25: under group_by "head_tail" two records are fused if and only if they
\* have the same head and the same tail, so the result has one record for
\* every (head, tail) pair of the input
C25_GroupsArePairs ==
    (pc = "fused" /\ settings.fusion.group_by = "head_tail") =>
        /\ Len(out) = Cardinality(EndpointPairs)
        /\ \A i, j \in DOMAIN relations :
              (GroupKey(relations[i], settings.fusion) = GroupKey(relations[j], settings.fusion))
                  <=> (/\ relations[i].head = relations[j].head
                       /\ relations[i].tail = relations[j].tail)

(***************************************************************************)
(* C26.  Consistency of the relation metrics of a two-template report.     *)
(***************************************************************************)
\* C26: in a report for a list of two templates the intersection is no
\* larger than the union, and relations_jaccard times the union count is
\* the intersection count whenever the union is not empty
C26_MetricsConsistent ==
    (pc = "compared" /\ Len(query.templates) = 2) =>
        LET m == report.metrics
        IN  /\ m.relations_intersection_count <= m.relations_union_count
            /\ m.relations_union_count > 0 =>
                  m.relations_jaccard[1] * m.relations_union_count =
                      m.relations_intersection_count * m.relations_jaccard[2]

(***************************************************************************)
(* C27.  The endpoints of the records normalize_relations returns.         *)
(***************************************************************************)
\* C27: every record normalize_relations returns has a head and a tail that
\* are not the empty string
C27_EndpointsNonEmpty ==
    pc = "relations" =>
        \A i \in DOMAIN out : out[i].head # <<>> /\ out[i].tail # <<>>

(***************************************************************************)
(* batch_extractor: the name under which process_book saves a result.      *)
(***************************************************************************)
relations_plus == <<"r", "e", "l", "a", "t", "i", "o", "n", "s", "_", "p", "l", "u", "s">>

\* the settings extraction and comparison both read
PersistSettings(selected, basename_template_id, use_model_suffix, overwrite, selection_mode) ==
    [prompts |-> [templates |-> <<TemplateCfg(T1, <<>>, <<>>), TemplateCfg(T2, <<>>, <<>>)>>,
                  selected |-> selected, selection_mode |-> selection_mode,
                  dynamic |-> [override_to |-> T2]],
     results |-> [use_model_suffix |-> use_model_suffix,
                  basename_template_id |-> basename_template_id,
                  overwrite |-> overwrite],
     llm |-> [model_name |-> <<"q", " ", "x">>]]

\* _choose_template(text)["id"]; long_dialogue: the text passes both
\* thresholds of the dynamic selectors
_choose_template(st, long_dialogue) ==
    IF st.prompts.selection_mode = "dynamic" /\ long_dialogue
    THEN st.prompts.dynamic.override_to
    ELSE st.prompts.selected

\* settings.get("results", {}).get("basename_template_id", "relations_plus")
basename_id(st) ==
    IF st.results.basename_template_id = None THEN relations_plus
    ELSE st.results.basename_template_id

\* result_name of process_book
result_name(template_id, st) ==
    Path(IF template_id = basename_id(st) THEN None ELSE template_id,
         IF st.results.use_model_suffix THEN Sanitize(st.llm.model_name) ELSE None)

\* the file name a path stands for, for chapter id cid
FileName(cid, p) ==
    <<"r", "e", "s", "u", "l", "t", "_">> \o cid
    \o (IF p.tpl = None THEN <<>> ELSE <<"_", "_", "t", "p", "l", "-">> \o p.tpl)
    \o (IF p.model = None THEN <<>> ELSE <<"_", "_", "m", "o", "d", "e", "l", "-">> \o p.model)
    \o <<".", "j", "s", "o", "n">>

\* the payload process_book dumps for the extraction d
Payload(d) ==
    IF d.kind = "dict" THEN [d EXCEPT !.keys = @ \cup {"meta"}]
    ELSE JDict({"relations", "meta"}, d.items, <<>>)

(***************************************************************************)
(* Specification SpecPersist: process_book extracts one chapter into the   *)
(* results directory and compare_chapter reads that directory, under the   *)
(* same settings.                                                          *)
(***************************************************************************)
ChapterNumbers == {1, 12, 123}

PersistSettingsPool ==
    {PersistSettings(sel, bn, s, o, m) :
        sel \in {T1, T2}, bn \in {None, T1, T2}, s \in BOOLEAN, o \in BOOLEAN,
        m \in {"static", "dynamic"}}

PersistPaths == {Path(t, m) : t \in {None, T1, T2}, m \in {None, <<"q", "_", "x">>}}

OldResult == FileJson(JList(<<RawRel(<<"c">>, <<"P">>, <<"S">>, <<"d">>, <<"P">>, 90)>>))

\* the results directory before extraction: empty, or holding one result
PersistStores ==
    {[p \in PersistPaths |-> FileMissing]} \cup
    {[p \in PersistPaths |-> IF p = q THEN OldResult ELSE FileMissing] : q \in PersistPaths}

\* what extract_chapter returns: None, a list, a dict
Extractions ==
    {NoData,
     JList(<<RawRel(<<"a">>, <<"P">>, <<"R">>, <<"b">>, <<"P">>, 90)>>),
     JDict({"relations", "events"}, <<RawRel(<<"a">>, <<"P">>, <<"R">>, <<"b">>, <<"P">>, 90)>>, <<>>)}

InitPersist ==
    /\ pc = "start"
    /\ \E ts \in {<<T1>>, <<T2>>, <<T1, T2>>}, n \in ChapterNumbers :
          query = [CompareQuery(ts, 0, FALSE, None) EXCEPT !.chapter_id = Format03(n)]
    /\ settings \in PersistSettingsPool
    /\ files \in PersistStores
    /\ report = NoData
    /\ relations = <<>>
    /\ out = <<>>
    /\ CfgIdle
    /\ CanonIdle
    /\ JaccardIdle
    /\ ParseIdle
    /\ NormIdle

\* process_book on the chapter file whose number the query names
CallProcessBook ==
    /\ pc = "start"
    /\ out = <<>>
    /\ \E long_dialogue \in BOOLEAN, d \in Extractions :
          LET cid == IntOf(query.chapter_id)
              template_id == _choose_template(settings, long_dialogue)
              p == result_name(template_id, settings)
              saved == (files[p] = FileMissing \/ settings.results.overwrite) /\ Truthy(d)
          IN  /\ files' = IF saved THEN [files EXCEPT ![p] = FileJson(Payload(d))] ELSE files
              /\ out' = <<[result_name |-> p, chapter_id |-> Format03(cid),
                           template_id |-> template_id, saved |-> saved]>>
    /\ UNCHANGED <<pc, query, report, relations, settings, cfgVars, canonVars, jaccardVars,
                   parseVars, normVars>>

NextPersist == CallProcessBook \/ CallCompareChapter

SpecPersist == InitPersist /\ [][NextPersist]_vars

(***************************************************************************)
(* C28.  The saved file against the files comparison probes.               *)
(***************************************************************************)
\* the names compare_chapter probes for template t without a model hint
Probed(t) ==
    LET paths == _candidate_paths(settings.prompts.selected, t, settings, None)
    IN  {FileName(query.chapter_id, paths[i]) : i \in DOMAIN paths}

\* C28: the file process_book saves for a chapter and a template is one of
\* the files compare_chapter probes for that chapter id and template id
C28_SavedIsProbed ==
    (out # <<>> /\ out[1].saved) =>
        FileName(out[1].chapter_id, out[1].result_name) \in Probed(out[1].template_id)

(***************************************************************************)
(* C29.  The entity statements that precede a relation statement.          *)
(***************************************************************************)
\* the names the entity statements before position i merge
MergedBefore(i) == {out[j].name : j \in {k \in 1..(i - 1) : out[k].kind = "entity"}}

\* C29: every relation statement of the session comes after the entity
\* statements of its head and of its tail, so both of its MATCH clauses find
\* a node
C29_EndpointsMerged ==
    pc = "ingested" =>
        \A i \in DOMAIN out :
            out[i].kind = "relation" =>
                out[i].h \in MergedBefore(i) /\ out[i].t \in MergedBefore(i)

====
